---- MODULE Spec2Model ----
(***************************************************************************)
(* A model of the revm transaction driver (Transact::transact), the frame  *)
(* engine (EVMImpl::call_inner / create_inner), the host instructions of   *)
(* the interpreter and the journaled state they act on.                    *)
(*                                                                         *)
(* The interpreter's instruction stream is abstracted: a frame whose       *)
(* account has code executes a nondeterministically chosen sequence of     *)
(* host instructions; a frame over an account without code executes the    *)
(* single STOP of empty bytecode. In the transactions whose env says so  *)
(* (interpret) the frames execute the bytes of the code instead: the       *)
(* control instructions, PUSH and BLOCKHASH.                               *)
(***************************************************************************)
EXTENDS Integers, Sequences, FiniteSets, TLC

VARIABLES
    env,        \* Env: cfg, block and tx (fixed during a transaction)
    db,         \* the read-only backing database: address -> account
    js,         \* JournaledState: accounts, journal, logs, depth
    frames,     \* the stack of live interpreter frames, innermost last
    tx_gas,     \* the transaction-level Gas of transact
    pc,         \* position of transact: start, running, finalize, done, rejected, error
    result,     \* the ExecutionResult (or the error) of transact
    hist,       \* history, parallel to frames: journaled state at the checkpoint, expected storage,
                \* logs of the frame and of its sub-frames that succeeded, accounts destroyed
    ev,         \* history: what the last step did
    nops        \* number of instructions executed so far

vars == <<env, db, js, frames, tx_gas, pc, result, hist, ev, nops>>

----------------------------------------------------------------------------
(* Bounds of the model *)

\* total number of instructions one transaction executes
MaxOps == 3
\* number of nested frames the executed code opens
MaxFrames == 2
\* number of nested frames in the scenario of the nested static calls
MaxStaticFrames == 3
\* width of the nonce counter in bits (u64 in the source)
NonceBits == 2
\* width of usize in bits (64 in the source)
UsizeBits == 10

----------------------------------------------------------------------------
(* Hardforks (SpecId) *)

FRONTIER == 0
HOMESTEAD == 2
TANGERINE == 4
SPURIOUS_DRAGON == 5
BYZANTIUM == 6
PETERSBURG == 8
ISTANBUL == 9
BERLIN == 11
LONDON == 12
MERGE == 15

enabled(SPEC, fork) == SPEC >= fork

----------------------------------------------------------------------------
(* Addresses and storage *)

CALLER == 1
CONTRACT_X == 2
CONTRACT_Y == 3
COINBASE == 4
EOA == 5
NEW_A == 6
NEW_B == 7

Addr == {CALLER, CONTRACT_X, CONTRACT_Y, COINBASE, EOA, NEW_A, NEW_B}
Slots == {1}
None == -1

U64_MAX == 2 ^ NonceBits - 1

Min(a, b) == IF a <= b THEN a ELSE b

----------------------------------------------------------------------------
(* Gas schedule *)

TRANSACTION_ZERO_DATA == 4
ACCESS_LIST_ADDRESS == 2400
ACCESS_LIST_STORAGE_KEY == 1900
CALL_STIPEND == 2300
LOG == 375
LOGDATA == 8
LOGTOPIC == 375
CODEDEPOSIT == 200
CREATE == 32000
CALLVALUE == 9000
NEWACCOUNT == 25000
SSTORE_SET == 20000
SSTORE_RESET == 5000
REFUND_SSTORE_CLEARS == 15000
COLD_SLOAD_COST == 2100
COLD_ACCOUNT_ACCESS_COST == 2600
WARM_STORAGE_READ_COST == 100
SELFDESTRUCT == 24000
\* the limit of 1024 scaled to the frames of the model: the innermost frame
\* the bound allows is the one whose calls and creates are too deep
CALL_STACK_LIMIT == env.max_frames - 1

sload_cost(SPEC, is_cold) ==
    IF enabled(SPEC, BERLIN)
    THEN (IF is_cold THEN COLD_SLOAD_COST ELSE WARM_STORAGE_READ_COST)
    ELSE IF enabled(SPEC, ISTANBUL) THEN 800
    ELSE IF enabled(SPEC, TANGERINE) THEN 200
    ELSE 50

\* None when the instruction must fail (EIP-1706)
sstore_cost(SPEC, original, current, new, gas, is_cold) ==
    LET gas_sload == IF enabled(SPEC, BERLIN) THEN WARM_STORAGE_READ_COST
                     ELSE sload_cost(SPEC, is_cold)
        gas_sstore_reset == IF enabled(SPEC, BERLIN) THEN SSTORE_RESET - COLD_SLOAD_COST
                            ELSE SSTORE_RESET
        gas_cost ==
            IF enabled(SPEC, ISTANBUL)
            THEN (IF new = current THEN gas_sload
                  ELSE IF original = current
                       THEN (IF original = 0 THEN SSTORE_SET ELSE gas_sstore_reset)
                       ELSE gas_sload)
            ELSE (IF current = 0 /\ new # 0 THEN SSTORE_SET ELSE SSTORE_RESET)
    IN  IF enabled(SPEC, ISTANBUL) /\ gas <= CALL_STIPEND THEN None
        ELSE IF enabled(SPEC, BERLIN) /\ is_cold THEN gas_cost + COLD_SLOAD_COST
        ELSE gas_cost

sstore_refund(SPEC, original, current, new) ==
    IF enabled(SPEC, ISTANBUL)
    THEN LET sstore_clears_schedule ==
                 IF enabled(SPEC, LONDON)
                 THEN SSTORE_RESET - COLD_SLOAD_COST + ACCESS_LIST_STORAGE_KEY
                 ELSE REFUND_SSTORE_CLEARS
             gas_sstore_reset == IF enabled(SPEC, BERLIN) THEN SSTORE_RESET - COLD_SLOAD_COST
                                 ELSE SSTORE_RESET
             gas_sload == IF enabled(SPEC, BERLIN) THEN WARM_STORAGE_READ_COST
                          ELSE sload_cost(SPEC, FALSE)
         IN  IF current = new THEN 0
             ELSE IF original = current /\ new = 0 THEN sstore_clears_schedule
             ELSE (IF original # 0
                   THEN (IF current = 0 THEN 0 - sstore_clears_schedule
                         ELSE IF new = 0 THEN sstore_clears_schedule ELSE 0)
                   ELSE 0)
                  + (IF original = new
                     THEN (IF original = 0 THEN SSTORE_SET - gas_sload
                           ELSE gas_sstore_reset - gas_sload)
                     ELSE 0)
    ELSE (IF current # 0 /\ new = 0 THEN REFUND_SSTORE_CLEARS ELSE 0)

log_cost(n, len) == LOG + LOGDATA * len + LOGTOPIC * n

selfdestruct_cost(SPEC, res) ==
    LET should_charge_topup == IF enabled(SPEC, SPURIOUS_DRAGON)
                               THEN res.had_value /\ ~res.exists
                               ELSE ~res.exists
        selfdestruct_gas_topup == IF enabled(SPEC, TANGERINE) /\ should_charge_topup
                                  THEN NEWACCOUNT ELSE 0
        selfdestruct_gas == IF enabled(SPEC, TANGERINE) THEN 5000 ELSE 0
        gas == selfdestruct_gas + selfdestruct_gas_topup
    IN  IF enabled(SPEC, BERLIN) /\ res.is_cold THEN gas + COLD_ACCOUNT_ACCESS_COST ELSE gas

call_cost(SPEC, value, is_new, is_cold, is_call_or_callcode, is_call_or_staticcall) ==
    LET transfers_value == value # 0
        call_gas == IF enabled(SPEC, BERLIN)
                    THEN (IF is_cold THEN COLD_ACCOUNT_ACCESS_COST ELSE WARM_STORAGE_READ_COST)
                    ELSE IF enabled(SPEC, TANGERINE) THEN 700 ELSE 40
        xfer_cost == IF is_call_or_callcode /\ transfers_value THEN CALLVALUE ELSE 0
        new_cost == IF ~is_call_or_staticcall THEN 0
                    ELSE IF enabled(SPEC, SPURIOUS_DRAGON)
                         THEN (IF transfers_value /\ is_new THEN NEWACCOUNT ELSE 0)
                         ELSE (IF is_new THEN NEWACCOUNT ELSE 0)
    IN  call_gas + xfer_cost + new_cost

----------------------------------------------------------------------------
(* Gas meter *)

Gas_new(limit) == [limit |-> limit, all_used_gas |-> 0, refunded |-> 0]
remaining(g) == g.limit - g.all_used_gas
spend(g) == g.all_used_gas
refunded(g) == g.refunded
can_record_cost(g, cost) == g.all_used_gas + cost <= g.limit
record_cost(g, cost) == [g EXCEPT !.all_used_gas = @ + cost]
erase_cost(g, returned) == [g EXCEPT !.all_used_gas = @ - returned]
record_refund(g, refund) == [g EXCEPT !.refunded = @ + refund]

----------------------------------------------------------------------------
(* Exit reasons *)

return_ok(r) == r \in {"Continue", "Stop", "Return", "SelfDestruct"}
return_revert(r) == r \in {"Revert", "CallTooDeep", "OutOfFund"}

----------------------------------------------------------------------------
(* Journaled state: accounts over the backing database, the journal of     *)
(* reversible changes, the log buffer and the checkpoint depth.            *)

\* the account as the journaled state holds it once loaded from the database
AccountFromDb(d) ==
    [balance |-> d.balance, nonce |-> d.nonce, code |-> d.code, exists |-> d.exists,
     loaded |-> FALSE, touched |-> FALSE, is_destroyed |-> FALSE, storage_cleared |-> FALSE,
     storage |-> [k \in Slots |-> [original |-> d.storage[k], present |-> d.storage[k],
                                   loaded |-> FALSE]]]

JournaledState_new(d) ==
    [accounts |-> [a \in Addr |-> AccountFromDb(d[a])], journal |-> <<>>, logs |-> <<>>,
     depth |-> 0]

is_empty(acc) == acc.balance = 0 /\ acc.nonce = 0 /\ acc.code = <<>>

account_is_cold(j, a) == ~j.accounts[a].loaded

\* the database fails to answer the lookup load_account makes for an account
\* the journaled state does not hold yet
db_failure(j, a) == db[a].error /\ ~j.accounts[a].loaded

load_account(j, a) ==
    IF j.accounts[a].loaded THEN j
    ELSE [j EXCEPT !.accounts[a].loaded = TRUE,
                   !.journal = Append(@, [tag |-> "AccountLoaded", address |-> a])]

load_code(j, a) == load_account(j, a)

\* the second component of load_account_exist
account_exist(SPEC, j, a) ==
    LET acc == load_account(j, a).accounts[a]
    IN  IF enabled(SPEC, SPURIOUS_DRAGON) THEN ~is_empty(acc)
        ELSE acc.exists \/ acc.touched

touch(j, a) ==
    IF j.accounts[a].touched THEN j
    ELSE [j EXCEPT !.accounts[a].touched = TRUE,
                   !.journal = Append(@, [tag |-> "AccountTouched", address |-> a])]

can_inc_nonce(j, a) == j.accounts[a].nonce # U64_MAX

inc_nonce(j, a) ==
    LET j1 == touch(j, a)
    IN  [j1 EXCEPT !.accounts[a].nonce = @ + 1,
                   !.journal = Append(@, [tag |-> "NonceChange", address |-> a])]

can_transfer(j, from, value) == j.accounts[from].balance >= value

\* a transfer that loads and touches the accounts and moves nothing
transfer_nothing(j, from, to, value) ==
    touch(touch(load_account(load_account(j, from), to), from), to)

\* the journaled state after a transfer; when the source lacks the funds the
\* accounts are loaded and the source is touched, and nothing moves
transfer(j, from, to, value) ==
    LET j1 == touch(load_account(load_account(j, from), to), from)
    IN  IF ~can_transfer(j1, from, value) THEN j1
        ELSE LET j2 == touch(j1, to)
                 j3 == [j2 EXCEPT !.accounts[from].balance = @ - value]
             IN  [j3 EXCEPT !.accounts[to].balance = @ + value,
                            !.journal = Append(@, [tag |-> "BalanceTransfer", from |-> from,
                                                   to |-> to, balance |-> value])]

slot_is_cold(j, a, k) == ~j.accounts[a].storage[k].loaded

\* present value of a slot; a slot of an account whose storage was cleared
\* is not read from the database
sload_value(j, a, k) ==
    IF j.accounts[a].storage[k].loaded THEN j.accounts[a].storage[k].present
    ELSE IF j.accounts[a].storage_cleared THEN 0
    ELSE j.accounts[a].storage[k].original

sload(j, a, k) ==
    IF j.accounts[a].storage[k].loaded THEN j
    ELSE [j EXCEPT !.accounts[a].storage[k] =
                        [original |-> sload_value(j, a, k), present |-> sload_value(j, a, k),
                         loaded |-> TRUE],
                   !.journal = Append(@, [tag |-> "StorageChange", address |-> a, key |-> k,
                                          had_value |-> None,
                                          had_original |-> j.accounts[a].storage[k].original])]

sstore(j, a, k, new) ==
    LET j1 == sload(j, a, k)
        present == j1.accounts[a].storage[k].present
    IN  IF present = new THEN j1
        ELSE [j1 EXCEPT !.accounts[a].storage[k].present = new,
                        !.journal = Append(@, [tag |-> "StorageChange", address |-> a, key |-> k,
                                               had_value |-> present,
                                               had_original |-> j1.accounts[a].storage[k].original])]

log(j, l) == [j EXCEPT !.logs = Append(@, l)]

set_code(j, a, code) ==
    [touch(j, a) EXCEPT !.accounts[a].code = code,
                        !.journal = Append(@, [tag |-> "CodeChange", address |-> a,
                                               had_code |-> j.accounts[a].code])]

\* a create that collides with no account
create_no_collision(j, a, is_precompile) == FALSE

\* a create collides with an account that has a nonce or code
create_collision(j, a, is_precompile) ==
    j.accounts[a].code # <<>> \/ j.accounts[a].nonce # 0 \/ is_precompile

\* the journaled state after create_account has succeeded: the account is
\* new and its storage is cleared
create_account(j, a) ==
    LET j1 == load_code(j, a)
    IN  [j1 EXCEPT !.accounts[a].storage_cleared = TRUE,
                   !.accounts[a].is_destroyed = FALSE,
                   !.accounts[a].touched = TRUE,
                   !.accounts[a].storage =
                        [k \in Slots |-> [@[k] EXCEPT !.original = 0, !.present = 0]],
                   !.journal = Append(@, [tag |-> "AccountCreated", address |-> a,
                                          had_account |-> j1.accounts[a]])]

\* a SelfDestructResult that reports every destruction as the first
selfdestruct_result_first(SPEC, j, address, target) ==
    [had_value |-> j.accounts[address].balance # 0,
     exists |-> account_exist(SPEC, j, target),
     is_cold |-> account_is_cold(j, target),
     previously_destroyed |-> FALSE]

\* SelfDestructResult of selfdestruct(address, target)
selfdestruct_result(SPEC, j, address, target) ==
    [had_value |-> j.accounts[address].balance # 0,
     exists |-> account_exist(SPEC, j, target),
     is_cold |-> account_is_cold(j, target),
     previously_destroyed |-> j.accounts[address].is_destroyed]

selfdestruct(j, address, target) ==
    LET j1 == touch(load_account(j, target), target)
        balance == j1.accounts[address].balance
        j2 == [j1 EXCEPT !.accounts[address].balance = 0,
                         !.accounts[address].is_destroyed = TRUE]
    IN  [j2 EXCEPT !.accounts[target].balance = @ + balance,
                   !.journal = Append(@, [tag |-> "AccountDestroyed", address |-> address,
                                          target |-> target,
                                          was_destroyed |-> j.accounts[address].is_destroyed,
                                          had_balance |-> balance])]

checkpoint(j) == [journal_i |-> Len(j.journal), log_i |-> Len(j.logs)]

checkpoint_enter(j) == [j EXCEPT !.depth = @ + 1]

checkpoint_commit(j) == [j EXCEPT !.depth = @ - 1]

\* the inverse of one journal entry
revert_entry(accounts, e) ==
    CASE e.tag = "AccountLoaded" -> [accounts EXCEPT ![e.address].loaded = FALSE]
      [] e.tag = "AccountTouched" -> [accounts EXCEPT ![e.address].touched = FALSE]
      [] e.tag = "BalanceTransfer" ->
            [[accounts EXCEPT ![e.from].balance = @ + e.balance]
                       EXCEPT ![e.to].balance = @ - e.balance]
      [] e.tag = "NonceChange" -> [accounts EXCEPT ![e.address].nonce = @ - 1]
      [] e.tag = "StorageChange" ->
            IF e.had_value = None
            THEN [accounts EXCEPT ![e.address].storage[e.key] =
                      [original |-> e.had_original, present |-> e.had_original, loaded |-> FALSE]]
            ELSE [accounts EXCEPT ![e.address].storage[e.key].present = e.had_value]
      [] e.tag = "CodeChange" -> [accounts EXCEPT ![e.address].code = e.had_code]
      [] e.tag = "AccountCreated" -> [accounts EXCEPT ![e.address] = e.had_account]
      [] e.tag = "AccountDestroyed" ->
            LET a1 == [accounts EXCEPT ![e.target].balance = @ - e.had_balance]
            IN  [a1 EXCEPT ![e.address].balance = @ + e.had_balance,
                           ![e.address].is_destroyed = e.was_destroyed]

RECURSIVE revert_entries(_, _, _)
revert_entries(accounts, journal, journal_i) ==
    IF Len(journal) <= journal_i THEN accounts
    ELSE revert_entries(revert_entry(accounts, journal[Len(journal)]),
                        SubSeq(journal, 1, Len(journal) - 1), journal_i)

\* a revert that leaves the log buffer as it is
checkpoint_revert_keeps_logs(j, cp) ==
    [accounts |-> revert_entries(j.accounts, j.journal, cp.journal_i),
     journal |-> SubSeq(j.journal, 1, cp.journal_i),
     logs |-> j.logs,
     depth |-> j.depth - 1]

checkpoint_revert(j, cp) ==
    [accounts |-> revert_entries(j.accounts, j.journal, cp.journal_i),
     journal |-> SubSeq(j.journal, 1, cp.journal_i),
     logs |-> SubSeq(j.logs, 1, cp.log_i),
     depth |-> j.depth - 1]

----------------------------------------------------------------------------
(* Environment *)

effective_gas_price(e) ==
    IF e.gas_priority_fee = None THEN e.gas_price
    ELSE Min(e.gas_price, e.basefee + e.gas_priority_fee)

GSPEC == env.spec_id

\* byte strings are sequences of bytes
EMPTY == <<>>

----------------------------------------------------------------------------
(* Frame engine: EVMImpl::call_inner *)

Top == frames[Len(frames)]

ViewOfDb(d) == [a \in Addr |-> [k \in Slots |-> d[a].storage[k]]]

\* a depth check that never fails
call_never_too_deep(j) == FALSE

\* the depth check of call_inner and create_inner
call_too_deep(j) == j.depth > CALL_STACK_LIMIT

\* From<precompiles::Error> for ExceptionalHalt; the arm of the Modexp errors
\* is unreachable!()
precompile_halt(e) ==
    CASE e = "OutOfGas" -> "OutOfGas"
      [] e \in {"Blake2WrongLength", "Blake2WrongFinalIndicatorFlag"} -> "InvalidParameter"
      [] e \in {"ModexpExpOverflow", "ModexpBaseOverflow", "ModexpModOverflow"} -> "unreachable"
      [] e \in {"Bn128FieldPointNotAMember", "Bn128AffineGFailedToCreate", "Bn128PairLength"}
            -> "OutOfGas"

\* the precompile branch of call_inner: what the precompile returns for the
\* input decides the exit, and no interpreter is built
call_precompile(j, checkpoint_, gas, out) ==
    IF out.ok
    THEN (IF can_record_cost(gas, out.gas_used)
          THEN [tag |-> "return", js |-> checkpoint_commit(j), reason |-> "Continue",
                gas |-> record_cost(gas, out.gas_used), out |-> out.data]
          ELSE [tag |-> "return", js |-> checkpoint_revert(j, checkpoint_),
                reason |-> "OutOfGas", gas |-> gas, out |-> EMPTY])
    ELSE IF precompile_halt(out.error) = "unreachable"
    THEN [tag |-> "abort", js |-> j, error |-> "panic"]
    ELSE [tag |-> "return", js |-> checkpoint_revert(j, checkpoint_),
          reason |-> precompile_halt(out.error), gas |-> gas, out |-> EMPTY]

\* call_inner up to the construction of the interpreter
call_inner_enter(j, inputs) ==
    LET gas == Gas_new(inputs.gas_limit)
        j1 == load_code(j, inputs.contract)
        checkpoint_ == checkpoint(j1)
        j2 == checkpoint_enter(j1)
        j3 == IF inputs.transfer.value = 0
              THEN touch(load_account(j2, inputs.context.address), inputs.context.address)
              ELSE j2
        j4 == transfer(j3, inputs.transfer.source, inputs.transfer.target,
                       inputs.transfer.value)
    IN  IF db_failure(j, inputs.contract)
        THEN [tag |-> "abort", js |-> j, error |-> "DatabaseFailure"]
        ELSE IF call_too_deep(j1)
        THEN [tag |-> "return", js |-> j1, reason |-> "StackDepthLimit", gas |-> gas,
              out |-> EMPTY]
        ELSE IF ~can_transfer(j3, inputs.transfer.source, inputs.transfer.value)
        THEN [tag |-> "abort", js |-> j4, error |-> "OutOfFund"]
        ELSE IF inputs.contract = env.precompile.address
        THEN call_precompile(j4, checkpoint_, gas, env.precompile.out)
        ELSE [tag |-> "frame", js |-> j4, snap |-> j1,
              frame |-> [kind |-> "call",
                         address |-> inputs.context.address,
                         caller |-> inputs.context.caller,
                         value |-> inputs.context.apparent_value,
                         scheme |-> inputs.context.scheme,
                         is_static |-> inputs.is_static,
                         has_code |-> j1.accounts[inputs.contract].code # <<>>,
                         gas |-> gas,
                         checkpoint |-> checkpoint_,
                         created_address |-> 0,
                         return_data_buffer |-> EMPTY,
                         stack_top |-> None,
                         bytecode |-> j1.accounts[inputs.contract].code,
                         instruction_pointer |-> 0,
                         stack |-> <<>>,
                         initialize_interp |-> env.initialize_interp]]

\* call_inner that commits the checkpoint whatever the exit reason is
call_inner_exit_commit(j, f, gas, exit_reason, out) ==
    [js |-> checkpoint_commit(j), reason |-> exit_reason, gas |-> gas, out |-> out,
     address |-> 0]

\* call_inner after the interpreter has returned exit_reason
call_inner_exit(j, f, gas, exit_reason, out) ==
    [js |-> IF return_ok(exit_reason) THEN checkpoint_commit(j)
            ELSE checkpoint_revert(j, f.checkpoint),
     reason |-> exit_reason, gas |-> gas, out |-> out, address |-> 0]

\* the address of a created contract: a hash of the creator and its nonce
\* with a range of two addresses
create_address(caller, nonce) == IF (caller + nonce) % 2 = 0 THEN NEW_A ELSE NEW_B

\* create_inner returning OutOfFund having incremented the nonce of the caller
create_out_of_fund_after_nonce(j, inputs, gas) ==
    [tag |-> "return", js |-> inc_nonce(j, inputs.caller), reason |-> "OutOfFund",
     address |-> None, gas |-> gas, out |-> EMPTY]

\* create_inner when the balance of the caller is below the value
create_out_of_fund(j, inputs, gas) ==
    [tag |-> "return", js |-> j, reason |-> "OutOfFund", address |-> None,
     gas |-> gas, out |-> EMPTY]

\* create_inner up to the construction of the interpreter
create_inner_enter(SPEC, j, inputs) ==
    LET gas == Gas_new(inputs.gas_limit)
        j1 == load_account(j, inputs.caller)
        old_nonce == j1.accounts[inputs.caller].nonce
        j2 == inc_nonce(j1, inputs.caller)
        created_address == create_address(inputs.caller, old_nonce)
        j3 == load_account(j2, created_address)
        checkpoint_ == checkpoint(j3)
        j4 == checkpoint_enter(j3)
        j5 == create_account(j4, created_address)
        j6 == transfer(j5, inputs.caller, created_address, inputs.value)
        j7 == IF enabled(SPEC, SPURIOUS_DRAGON) THEN inc_nonce(j6, created_address) ELSE j6
    IN  IF call_too_deep(j1)
        THEN [tag |-> "return", js |-> j1, reason |-> "CallTooDeep", address |-> None,
              gas |-> gas, out |-> EMPTY]
        ELSE IF j1.accounts[inputs.caller].balance < inputs.value
        THEN create_out_of_fund(j1, inputs, gas)
        ELSE IF ~can_inc_nonce(j1, inputs.caller)
        THEN [tag |-> "abort", js |-> j1, error |-> "NonceOverflow"]
        ELSE IF create_collision(j3, created_address, FALSE)
        THEN [tag |-> "return", js |-> checkpoint_revert(load_code(j4, created_address),
                                                         checkpoint_),
              reason |-> "CreateCollision", address |-> created_address, gas |-> gas,
              out |-> EMPTY]
        ELSE [tag |-> "frame", js |-> j7, snap |-> j3,
              frame |-> [kind |-> "create",
                         address |-> created_address,
                         caller |-> inputs.caller,
                         value |-> inputs.value,
                         scheme |-> inputs.scheme,
                         is_static |-> FALSE,
                         has_code |-> inputs.init_code # <<>>,
                         gas |-> gas,
                         checkpoint |-> checkpoint_,
                         created_address |-> created_address,
                         return_data_buffer |-> EMPTY,
                         stack_top |-> None,
                         bytecode |-> inputs.init_code,
                         instruction_pointer |-> 0,
                         stack |-> <<>>,
                         initialize_interp |-> env.initialize_interp]]

\* a code deposit that costs nothing
gas_for_code_free(return_value) == 0

\* the code deposit cost of the returned code
gas_for_code(return_value) == Len(return_value) * CODEDEPOSIT

\* a create that deploys whatever code is returned
contract_prefix_any(SPEC, return_value) == FALSE

\* EIP-3541: new contract code starting with the 0xEF byte is rejected
contract_prefix_invalid(SPEC, return_value) ==
    enabled(SPEC, LONDON) /\ return_value # <<>> /\ Head(return_value) = 239

\* create_inner after the interpreter has returned exit_reason
create_inner_exit(SPEC, limit_contract_code_size, j, f, gas, exit_reason, out) ==
    LET address == f.created_address
        reverted == checkpoint_revert(j, f.checkpoint)
    IN  IF ~return_ok(exit_reason)
        THEN [js |-> reverted, reason |-> exit_reason, gas |-> gas, out |-> out,
              address |-> address]
        ELSE IF contract_prefix_invalid(SPEC, out)
        THEN [js |-> reverted, reason |-> "InvalidContractPrefix",
              gas |-> Gas_new(f.gas.limit), out |-> out, address |-> address]
        ELSE IF enabled(SPEC, SPURIOUS_DRAGON) /\ Len(out) > limit_contract_code_size
        THEN [js |-> reverted, reason |-> "OutOfGas", gas |-> Gas_new(f.gas.limit),
              out |-> out, address |-> address]
        ELSE IF ~can_record_cost(gas, gas_for_code(out))
        THEN (IF enabled(SPEC, HOMESTEAD)
              THEN [js |-> reverted, reason |-> "OutOfGas", gas |-> gas, out |-> out,
                    address |-> address]
              ELSE [js |-> set_code(checkpoint_commit(j), address, EMPTY),
                    reason |-> "Continue", gas |-> gas, out |-> EMPTY,
                    address |-> address])
        ELSE [js |-> set_code(checkpoint_commit(j), address, out), reason |-> "Continue",
              gas |-> record_cost(gas, gas_for_code(out)), out |-> out,
              address |-> address]

\* instructions::host::create after host.create has returned
create_return(p, eval, address, gas, out) ==
    LET p1 == [p EXCEPT !.return_data_buffer = IF return_revert(eval) THEN out ELSE EMPTY]
    IN  IF return_ok(eval)
        THEN [p1 EXCEPT !.gas = record_refund(erase_cost(@, remaining(gas)), refunded(gas)),
                        !.stack_top = IF address = None THEN 0 ELSE address]
        ELSE IF return_revert(eval)
        THEN [p1 EXCEPT !.gas = erase_cost(@, remaining(gas)), !.stack_top = 0]
        ELSE [p1 EXCEPT !.stack_top = 0]

\* the CALL instruction handing the unused gas back after a halt as well
call_return_halt_returns_gas(p, eval, gas, out) ==
    LET p1 == [p EXCEPT !.return_data_buffer = out]
    IN  IF return_ok(eval)
        THEN [p1 EXCEPT !.gas = record_refund(erase_cost(@, remaining(gas)), refunded(gas)),
                        !.stack_top = 1]
        ELSE [p1 EXCEPT !.gas = erase_cost(@, remaining(gas)), !.stack_top = 0]

\* the CALL instruction crediting the refund counter of a reverted frame
call_return_revert_refund(p, eval, gas, out) ==
    LET p1 == [p EXCEPT !.return_data_buffer = out]
    IN  IF return_ok(eval) \/ return_revert(eval)
        THEN [p1 EXCEPT !.gas = record_refund(erase_cost(@, remaining(gas)), refunded(gas)),
                        !.stack_top = IF return_ok(eval) THEN 1 ELSE 0]
        ELSE [p1 EXCEPT !.stack_top = 0]

\* instructions::host::call_inner after host.call has returned
call_return(p, eval, gas, out) ==
    LET p1 == [p EXCEPT !.return_data_buffer = out]
    IN  IF return_ok(eval)
        THEN [p1 EXCEPT !.gas = record_refund(erase_cost(@, remaining(gas)), refunded(gas)),
                        !.stack_top = 1]
        ELSE IF return_revert(eval)
        THEN [p1 EXCEPT !.gas = erase_cost(@, remaining(gas)), !.stack_top = 0]
        ELSE [p1 EXCEPT !.stack_top = 0]

\* transact after call_inner / create_inner has returned
transact_return(gas, exit_reason, ret_gas) ==
    IF return_ok(exit_reason)
    THEN record_refund(erase_cost(gas, remaining(ret_gas)), refunded(ret_gas))
    ELSE IF exit_reason = "Revert" THEN erase_cost(gas, remaining(ret_gas))
    ELSE gas

\* the slots whose value in the view of a reverted frame differs from the
\* value in the view of its caller
Undone(view, reverted_view) ==
    {ak \in Addr \X Slots : reverted_view[ak[1]][ak[2]] # view[ak[1]][ak[2]]}

\* the addresses a frame was the first to access: warm in the state the frame
\* has reached and cold in the state it started from
FirstAccessed(snap, j) ==
    {a \in Addr : j.accounts[a].loaded /\ ~snap.accounts[a].loaded}

\* The interpreter of the innermost frame returns exit_reason: the frame
\* engine closes the checkpoint and the caller (a frame or transact) resumes.
Exit(j, gas, exit_reason, out) ==
    LET n == Len(frames)
        f == frames[n]
        ep == IF f.kind = "call" THEN call_inner_exit(j, f, gas, exit_reason, out)
              ELSE create_inner_exit(GSPEC, env.limit_contract_code_size, j, f, gas,
                                     exit_reason, out)
        info == [type |-> "exit", kind |-> f.kind, depth |-> n, reason |-> ep.reason,
                 interp_reason |-> exit_reason, interp_gas |-> gas, address |-> f.address,
                 snap |-> hist[n].snap, ret_gas |-> ep.gas, out |-> ep.out,
                 changed |-> Len(j.journal) > f.checkpoint.journal_i
                             \/ Len(j.logs) > f.checkpoint.log_i,
                 is_static |-> f.is_static, op_changed |-> j # js,
                 interp_out |-> out, value |-> f.value, interp_js |-> j,
                 emitted |-> hist[n].logs, destroyed |-> hist[n].destroyed,
                 neg |-> return_ok(ep.reason)
                         /\ (hist[n].neg \/ refunded(ep.gas) < 0
                             \/ (n > 1 /\ hist[n - 1].neg)),
                 parent_gas |-> IF n = 1 THEN tx_gas ELSE frames[n - 1].gas]
    IN  /\ js' = ep.js
        /\ ev' = info
        /\ IF n = 1
           THEN /\ frames' = <<>>
                /\ hist' = <<>>
                /\ tx_gas' = transact_return(tx_gas, ep.reason, ep.gas)
                /\ result' = [exit_reason |-> ep.reason, out |-> ep.out,
                              address |-> ep.address]
                /\ pc' = "finalize"
           ELSE /\ frames' = Append(SubSeq(frames, 1, n - 2),
                                    IF f.kind = "call"
                                    THEN call_return(frames[n - 1], ep.reason, ep.gas, ep.out)
                                    ELSE create_return(frames[n - 1], ep.reason, ep.address,
                                                       ep.gas, ep.out))
                /\ hist' = Append(SubSeq(hist, 1, n - 2),
                                  IF return_ok(ep.reason)
                                  THEN [hist[n - 1] EXCEPT !.view = hist[n].view,
                                                           !.undone = hist[n].undone,
                                                           !.neg = info.neg,
                                                           !.balanced = hist[n].balanced,
                                                           !.recold = hist[n].recold,
                                                           !.logs = @ \o hist[n].logs,
                                                           !.destroyed =
                                                               hist[n].destroyed
                                                               \cup (IF exit_reason = "SelfDestruct"
                                                                     THEN {f.address}
                                                                     ELSE {})]
                                  ELSE [hist[n - 1] EXCEPT
                                            !.undone = @ \cup Undone(hist[n - 1].view,
                                                                     hist[n].view),
                                            !.balanced = hist[n].balanced,
                                            !.recold = hist[n].recold
                                                       \cup FirstAccessed(hist[n].snap, j)])
                /\ UNCHANGED <<tx_gas, result, pc>>

----------------------------------------------------------------------------
(* Transaction driver: Transact::transact *)

RECURSIVE load_slots(_, _, _)
load_slots(j, a, slots) ==
    IF slots = <<>> THEN j ELSE load_slots(sload(j, a, Head(slots)), a, Tail(slots))

RECURSIVE load_access_list(_, _)
load_access_list(j, access_list) ==
    IF access_list = <<>> THEN j
    ELSE LET address == Head(access_list).address
             \* the results of load_account and sload are discarded
             j1 == IF db_failure(j, address) THEN j
                   ELSE load_slots(load_account(j, address), address,
                                   Head(access_list).slots)
         IN  load_access_list(j1, Tail(access_list))

RECURSIVE accessed_slots(_)
accessed_slots(access_list) ==
    IF access_list = <<>> THEN 0
    ELSE Len(Head(access_list).slots) + accessed_slots(Tail(access_list))

RECURSIVE zero_data_len(_)
zero_data_len(data) ==
    IF data = <<>> THEN 0
    ELSE (IF Head(data) = 0 THEN 1 ELSE 0) + zero_data_len(Tail(data))

\* the intrinsic gas that charges every data byte as a zero byte
initialization_zero_data(SPEC, e) ==
    (IF e.transact_to.kind = "Create" /\ enabled(SPEC, HOMESTEAD) THEN 53000 ELSE 21000)
    + Len(e.data) * TRANSACTION_ZERO_DATA
    + (IF enabled(SPEC, BERLIN)
       THEN Len(e.access_list) * ACCESS_LIST_ADDRESS
            + accessed_slots(e.access_list) * ACCESS_LIST_STORAGE_KEY
       ELSE 0)

\* the intrinsic gas of the transaction
initialization(SPEC, e) ==
    LET is_create == e.transact_to.kind = "Create"
        transact == IF is_create /\ enabled(SPEC, HOMESTEAD) THEN 53000 ELSE 21000
        gas_transaction_non_zero_data == IF enabled(SPEC, ISTANBUL) THEN 16 ELSE 68
        accessed_accounts == IF enabled(SPEC, BERLIN) THEN Len(e.access_list) ELSE 0
        slots == IF enabled(SPEC, BERLIN) THEN accessed_slots(e.access_list) ELSE 0
    IN  transact
        + zero_data_len(e.data) * TRANSACTION_ZERO_DATA
        + (Len(e.data) - zero_data_len(e.data)) * gas_transaction_non_zero_data
        + accessed_accounts * ACCESS_LIST_ADDRESS
        + slots * ACCESS_LIST_STORAGE_KEY

\* the journaled state after initialization has preloaded the access list
initialization_state(SPEC, e, j) ==
    IF enabled(SPEC, BERLIN) THEN load_access_list(j, e.access_list) ELSE j

Reject(error, j) ==
    /\ pc' = "rejected"
    /\ result' = [error |-> error]
    /\ js' = j
    /\ ev' = [type |-> "reject", error |-> error]
    /\ UNCHANGED <<env, db, frames, tx_gas, hist, nops>>

Abort(error, j) ==
    /\ pc' = "error"
    /\ result' = [error |-> error]
    /\ js' = j
    /\ ev' = [type |-> "abort", error |-> error]
    /\ frames' = <<>>
    /\ hist' = <<>>
    /\ UNCHANGED tx_gas

\* transact leaving the nonce of the caller as it is
transact_keep_nonce(j, caller) == touch(j, caller)

\* transact increments the nonce of the caller of a call transaction
transact_inc_nonce(j, caller) == inc_nonce(j, caller)

\* transact hands the rest of the gas to the top frame
TransactCall(j, gas, gas_limit) ==
    LET caller == env.caller
        address == env.transact_to.address
        j1 == transact_inc_nonce(j, caller)
        call_input == [contract |-> address,
                       transfer |-> [source |-> caller, target |-> address,
                                     value |-> env.value],
                       gas_limit |-> gas_limit,
                       context |-> [caller |-> caller, address |-> address,
                                    code_address |-> address,
                                    apparent_value |-> env.value, scheme |-> "Call"],
                       is_static |-> FALSE]
        o == call_inner_enter(j1, call_input)
    IN  IF ~can_inc_nonce(j, caller) THEN Reject("NonceOverflow", j)
        ELSE IF o.tag = "abort" THEN Abort(o.error, o.js) /\ UNCHANGED <<env, db, nops>>
        ELSE IF o.tag = "return"
        THEN /\ pc' = "finalize"
             /\ js' = o.js
             /\ tx_gas' = transact_return(gas, o.reason, o.gas)
             /\ result' = [exit_reason |-> o.reason, out |-> o.out, address |-> 0]
             /\ ev' = [type |-> "call_return", reason |-> o.reason, depth |-> 0,
                       ret_gas |-> o.gas]
             /\ UNCHANGED <<env, db, frames, hist, nops>>
        ELSE /\ o.tag = "frame"
             /\ pc' = "running"
             /\ js' = o.js
             /\ frames' = <<o.frame>>
             /\ hist' = <<[snap |-> o.snap, view |-> ViewOfDb(db), undone |-> {},
                           neg |-> FALSE, balanced |-> {}, recold |-> {}, logs |-> <<>>, destroyed |-> {}]>>
             /\ tx_gas' = gas
             /\ ev' = [type |-> "enter", kind |-> "call", depth |-> 1]
             /\ UNCHANGED <<env, db, result, nops>>

\* the view of storage a create frame starts with: the storage of the created
\* account is cleared
ViewOfCreate(view, created_address) ==
    [view EXCEPT ![created_address] = [k \in Slots |-> 0]]

\* transact runs the init code of a CREATE transaction in the top frame
TransactCreate(j, gas, gas_limit) ==
    LET create_input == [caller |-> env.caller, scheme |-> "Create", value |-> env.value,
                         init_code |-> env.data, gas_limit |-> gas_limit]
        o == create_inner_enter(GSPEC, j, create_input)
    IN  IF o.tag = "abort" THEN Reject(o.error, o.js)
        ELSE IF o.tag = "return"
        THEN /\ pc' = "finalize"
             /\ js' = o.js
             /\ tx_gas' = transact_return(gas, o.reason, o.gas)
             /\ result' = [exit_reason |-> o.reason, out |-> o.out, address |-> o.address]
             /\ ev' = [type |-> "create_return", reason |-> o.reason, depth |-> 0]
             /\ UNCHANGED <<env, db, frames, hist, nops>>
        ELSE /\ pc' = "running"
             /\ js' = o.js
             /\ frames' = <<o.frame>>
             /\ hist' = <<[snap |-> o.snap,
                           view |-> ViewOfCreate(ViewOfDb(db), o.frame.address),
                           undone |-> {}, neg |-> FALSE, balanced |-> {},
                           recold |-> {}, logs |-> <<>>, destroyed |-> {}]>>
             /\ tx_gas' = gas
             /\ ev' = [type |-> "enter", kind |-> "create", depth |-> 1]
             /\ UNCHANGED <<env, db, result, nops>>

Transact ==
    /\ pc = "start"
    /\ LET caller == env.caller
           value == env.value
           gas_limit == env.gas_limit
           price == effective_gas_price(env)
           gas0 == Gas_new(gas_limit)
           initial == initialization(GSPEC, env)
           j1 == initialization_state(GSPEC, env, js)
           gas1 == record_cost(gas0, initial)
           j2 == load_account(j1, caller)
           payment_value == gas_limit * price
           balance == j2.accounts[caller].balance
           j3 == [j2 EXCEPT !.accounts[caller].balance =
                                IF payment_value > @ THEN 0 ELSE @ - payment_value]
           difference == env.gas_price - price
           gas_limit2 == remaining(gas1)
           gas2 == record_cost(gas1, gas_limit2)
       IN  IF enabled(GSPEC, MERGE) /\ ~env.prevrandao
           THEN Reject("PrevrandaoNotSet", js)
           ELSE IF /\ enabled(GSPEC, LONDON)
                   /\ env.gas_priority_fee # None
                   /\ env.gas_priority_fee > env.gas_price
           THEN Reject("GasMaxFeeGreaterThanPriorityFee", js)
           ELSE IF enabled(GSPEC, LONDON) /\ price < env.basefee
           THEN Reject("GasPriceLessThanBasefee", js)
           ELSE IF ~env.disable_block_gas_limit /\ gas_limit > env.block_gas_limit
           THEN Reject("CallerGasLimitMoreThanBlock", js)
           ELSE IF ~can_record_cost(gas0, initial)
           THEN Reject("OutOfGas", j1)
           ELSE IF db_failure(j1, caller)
           THEN Reject("DatabaseFailure", j1)
           ELSE IF ~env.disable_eip3607 /\ j2.accounts[caller].code # <<>>
           THEN Reject("RejectCallerWithCode", j2)
           ELSE IF payment_value > balance /\ ~env.disable_balance_check
           THEN Reject("LackOfFundForGasLimit", j2)
           ELSE IF ~env.disable_balance_check
                   /\ difference + value > j3.accounts[caller].balance
           THEN Reject("OutOfFund", j3)
           ELSE IF env.transact_to.kind = "Call"
           THEN TransactCall(j3, gas2, gas_limit2)
           ELSE TransactCreate(j3, gas2, gas_limit2)

\* `as u64` of the signed refund counter: the value modulo the width of the
\* target. The width is scaled from 64 to 30 bits, which is above every gas
\* amount of the model: a counter that is not negative is kept, a negative one
\* wraps to a value above every cap.
as_u64(x) == x % (2 ^ 30)

\* the refund with the quotient of the hardforks before London
gas_refund_quotient_2(SPEC, disable_gas_refund, gas) ==
    IF disable_gas_refund THEN 0
    ELSE Min(as_u64(refunded(gas)), spend(gas) \div 2)

\* the refund that always grants the cap
gas_refund_cap(SPEC, disable_gas_refund, gas) ==
    IF disable_gas_refund THEN 0
    ELSE spend(gas) \div (IF enabled(SPEC, LONDON) THEN 5 ELSE 2)

gas_refund(SPEC, disable_gas_refund, gas) ==
    IF disable_gas_refund THEN 0
    ELSE LET max_refund_quotient == IF enabled(SPEC, LONDON) THEN 5 ELSE 2
         IN  Min(as_u64(refunded(gas)), spend(gas) \div max_refund_quotient)

\* the coinbase receiving the whole gas price on every hardfork
coinbase_gas_price_whole(SPEC, price, basefee) == price

\* the base fee withheld from the coinbase on every hardfork
coinbase_gas_price_less_basefee(SPEC, price, basefee) ==
    IF price >= basefee THEN price - basefee ELSE 0

\* EIP-1559: the part of the gas price the coinbase receives
coinbase_gas_price(SPEC, price, basefee) ==
    IF enabled(SPEC, LONDON)
    THEN (IF price >= basefee THEN price - basefee ELSE 0)
    ELSE price

Finalize ==
    /\ pc = "finalize"
    /\ LET caller == env.caller
           coinbase == env.coinbase
           price == effective_gas_price(env)
           gas_refunded == gas_refund(GSPEC, env.disable_gas_refund, tx_gas)
           j1 == [js EXCEPT !.accounts[caller].balance =
                                @ + price * (remaining(tx_gas) + gas_refunded)]
           price_of_coinbase == coinbase_gas_price(GSPEC, price, env.basefee)
           \* the result of load_account is discarded
           j2 == touch(IF db_failure(j1, coinbase) THEN j1 ELSE load_account(j1, coinbase),
                       coinbase)
           j3 == [j2 EXCEPT !.accounts[coinbase].balance =
                                @ + price_of_coinbase * (spend(tx_gas) - gas_refunded)]
       IN  \/ /\ js' = j3
              /\ result' = [exit_reason |-> result.exit_reason, out |-> result.out,
                            address |-> result.address,
                            gas_used |-> spend(tx_gas) - gas_refunded,
                            gas_refunded |-> gas_refunded, logs |-> j3.logs]
              /\ pc' = "done"
              /\ ev' = [type |-> "finalize", exit |-> ev]
              /\ UNCHANGED <<env, db, frames, tx_gas, hist, nops>>
           \* state().get_mut(&coinbase).unwrap() finds no account when the
           \* journaled state did not keep one for the failed lookup
           \/ /\ db_failure(j1, coinbase)
              /\ pc' = "error"
              /\ result' = [error |-> "panic"]
              /\ js' = j1
              /\ ev' = [type |-> "abort", error |-> "panic"]
              /\ UNCHANGED <<env, db, frames, tx_gas, hist, nops>>

----------------------------------------------------------------------------
(* Host instructions of the interpreter (instructions/host.rs, control.rs) *)

\* the innermost frame executes an instruction of the abstracted stream
Running == pc = "running" /\ frames # <<>> /\ ~env.interpret

SetTop(f) == [frames EXCEPT ![Len(frames)] = f]

StoreValues == {0, 42}
\* the CALLs and STATICCALLs the executed code makes: target, value and
\* requested gas
Calls ==
    {[to |-> CONTRACT_X, value |-> 0, gas |-> 1000000, scheme |-> "Call"],
     [to |-> CONTRACT_X, value |-> 0, gas |-> 3000, scheme |-> "Call"],
     [to |-> CONTRACT_Y, value |-> 6, gas |-> 1000000, scheme |-> "Call"],
     [to |-> CONTRACT_X, value |-> 0, gas |-> 1000000, scheme |-> "StaticCall"]}
ReturnData == {<<96>>}
\* the code the init code of a create returns: one starts with the byte 0xEF
CreatedCode == {<<96>>, <<239>>}
\* the values the executed code endows a created contract with
CreateValues == {0}

\* STOP, also the only instruction of empty bytecode
OpStop ==
    /\ Running
    /\ Exit(js, Top.gas, "Stop", EMPTY)
    /\ UNCHANGED <<env, db, nops>>

OpReturn ==
    /\ Running /\ Top.has_code
    /\ \E d \in (IF Top.kind = "create" THEN CreatedCode ELSE ReturnData) :
         Exit(js, Top.gas, "Return", d)
    /\ UNCHANGED <<env, db, nops>>

OpRevert ==
    /\ Running /\ Top.has_code
    /\ \E d \in ReturnData :
         IF enabled(GSPEC, BYZANTIUM) THEN Exit(js, Top.gas, "Revert", d)
         ELSE Exit(js, Top.gas, "NotActivated", EMPTY)
    /\ UNCHANGED <<env, db, nops>>

OpInvalid ==
    /\ Running /\ Top.has_code
    /\ Exit(js, Top.gas, "InvalidOpcode", EMPTY)
    /\ UNCHANGED <<env, db, nops>>

\* SLOAD pushing the value the slot had when the transaction started
OpSload_original ==
    /\ Running /\ Top.has_code /\ nops < MaxOps
    /\ \E index \in Slots :
         LET f == Top
             is_cold == slot_is_cold(js, f.address, index)
             j1 == sload(js, f.address, index)
             value == j1.accounts[f.address].storage[index].original
             cost == sload_cost(GSPEC, is_cold)
         IN  IF ~can_record_cost(f.gas, cost) THEN Exit(j1, f.gas, "OutOfGas", EMPTY)
             ELSE /\ js' = j1
                  /\ frames' = SetTop([f EXCEPT !.gas = record_cost(@, cost),
                                                !.stack_top = value])
                  /\ ev' = [type |-> "sload", address |-> f.address, key |-> index,
                            value |-> value, cost |-> cost]
                  /\ UNCHANGED <<tx_gas, result, pc, hist>>
    /\ nops' = nops + 1
    /\ UNCHANGED <<env, db>>

OpSload ==
    /\ Running /\ Top.has_code /\ nops < MaxOps
    /\ \E index \in Slots :
         LET f == Top
             value == sload_value(js, f.address, index)
             is_cold == slot_is_cold(js, f.address, index)
             j1 == sload(js, f.address, index)
             cost == sload_cost(GSPEC, is_cold)
         IN  IF ~can_record_cost(f.gas, cost) THEN Exit(j1, f.gas, "OutOfGas", EMPTY)
             ELSE /\ js' = j1
                  /\ frames' = SetTop([f EXCEPT !.gas = record_cost(@, cost),
                                                !.stack_top = value])
                  /\ ev' = [type |-> "sload", address |-> f.address, key |-> index,
                            value |-> value, cost |-> cost]
                  /\ UNCHANGED <<tx_gas, result, pc, hist>>
    /\ nops' = nops + 1
    /\ UNCHANGED <<env, db>>

OpSstore ==
    /\ Running /\ Top.has_code /\ nops < MaxOps
    /\ \E index \in Slots, value \in StoreValues :
         LET f == Top
             old == sload_value(js, f.address, index)
             is_cold == slot_is_cold(js, f.address, index)
             j1 == sstore(js, f.address, index, value)
             original == j1.accounts[f.address].storage[index].original
             cost == sstore_cost(GSPEC, original, old, value, remaining(f.gas), is_cold)
             refund == sstore_refund(GSPEC, original, old, value)
         IN  IF f.is_static THEN Exit(js, f.gas, "WriteInStaticContext", EMPTY)
             ELSE IF cost = None \/ ~can_record_cost(f.gas, cost)
             THEN Exit(j1, f.gas, "OutOfGas", EMPTY)
             ELSE /\ js' = j1
                  /\ frames' = SetTop([f EXCEPT !.gas = record_refund(record_cost(@, cost),
                                                                      refund)])
                  /\ hist' = [hist EXCEPT ![Len(hist)].view[f.address][index] = value,
                                          ![Len(hist)].undone = @ \ {<<f.address, index>>}]
                  /\ ev' = [type |-> "sstore", address |-> f.address, key |-> index,
                            value |-> value, cost |-> cost, refund |-> refund]
                  /\ UNCHANGED <<tx_gas, result, pc>>
    /\ nops' = nops + 1
    /\ UNCHANGED <<env, db>>

\* the gas forwarded by the rule of EIP-150 on every hardfork
call_gas_limit_all_but_64th(SPEC, gas, local_gas_limit) ==
    Min(remaining(gas) - remaining(gas) \div 64, local_gas_limit)

\* the gas the CALL forwards and charges: the l64 part of what is left
call_gas_limit(SPEC, gas, local_gas_limit) ==
    IF enabled(SPEC, TANGERINE)
    THEN Min(remaining(gas) - remaining(gas) \div 64, local_gas_limit)
    ELSE local_gas_limit

\* the frame a STATICCALL starts running without the static flag
call_is_static_dropped(scheme, is_static) == is_static

\* a frame is static when a STATICCALL starts it or its caller is static
\* the flag as it would be if only the scheme of the call set it
call_is_static_of_scheme(scheme, is_static) == scheme = "StaticCall"

call_is_static(scheme, is_static) == scheme = "StaticCall" \/ is_static

\* the addresses the executed code reads the balance of
BalanceTargets == {EOA}

\* an access that is charged as a cold one whatever came before
account_access_gas_cold(SPEC, is_cold) ==
    IF enabled(SPEC, BERLIN) THEN COLD_ACCOUNT_ACCESS_COST ELSE 700

\* EIP-2929 and, before it, EIP-1884: the cost of an account access
account_access_gas(SPEC, is_cold) ==
    IF enabled(SPEC, BERLIN)
    THEN (IF is_cold THEN COLD_ACCOUNT_ACCESS_COST ELSE WARM_STORAGE_READ_COST)
    ELSE 700

\* BALANCE
OpBalance ==
    /\ Running /\ Top.has_code /\ nops < MaxOps
    /\ \E address \in BalanceTargets :
         LET f == Top
             is_cold == account_is_cold(js, address)
             j1 == load_account(js, address)
             balance == j1.accounts[address].balance
             cost == IF enabled(GSPEC, ISTANBUL) THEN account_access_gas(GSPEC, is_cold)
                     ELSE IF enabled(GSPEC, TANGERINE) THEN 400
                     ELSE 20
         IN  IF ~can_record_cost(f.gas, cost) THEN Exit(j1, f.gas, "OutOfGas", EMPTY)
             ELSE /\ js' = j1
                  /\ frames' = SetTop([f EXCEPT !.gas = record_cost(@, cost),
                                                !.stack_top = balance])
                  /\ hist' = [hist EXCEPT ![Len(hist)].balanced = @ \cup {address},
                                          ![Len(hist)].recold = @ \ {address}]
                  /\ ev' = [type |-> "balance", address |-> address, cost |-> cost,
                            is_cold |-> is_cold,
                            first |-> address \notin hist[Len(hist)].balanced,
                            recold |-> address \in hist[Len(hist)].recold]
                  /\ UNCHANGED <<tx_gas, result, pc>>
    /\ nops' = nops + 1
    /\ UNCHANGED <<env, db>>

\* CALL and STATICCALL: the instruction up to host.call, then call_inner up to
\* the new frame
OpCallWith(c) ==
    /\ Running /\ Top.has_code /\ nops < MaxOps
    /\   LET f == Top
             to == c.to
             value == c.value
             local_gas_limit == c.gas
             scheme == c.scheme
             is_cold == account_is_cold(js, to)
             exist == account_exist(GSPEC, js, to)
             j1 == load_account(js, to)
             cost == call_cost(GSPEC, value, ~exist, is_cold, scheme = "Call", TRUE)
             gas1 == record_cost(f.gas, cost)
             gas_limit == call_gas_limit(GSPEC, gas1, local_gas_limit)
             gas2 == record_cost(gas1, gas_limit)
             stipend == IF scheme = "Call" /\ value # 0 THEN CALL_STIPEND ELSE 0
             call_input == [contract |-> to,
                            transfer |-> [source |-> f.address,
                                          target |-> IF scheme = "Call" THEN to
                                                     ELSE f.address,
                                          value |-> value],
                            gas_limit |-> gas_limit + stipend,
                            context |-> [caller |-> f.address, address |-> to,
                                         code_address |-> to, apparent_value |-> value,
                                         scheme |-> scheme],
                            is_static |-> call_is_static(scheme, f.is_static)]
             o == call_inner_enter(j1, call_input)
             f1 == [f EXCEPT !.gas = gas2, !.return_data_buffer = EMPTY]
         IN  IF scheme = "StaticCall" /\ ~enabled(GSPEC, BYZANTIUM)
             THEN Exit(js, f.gas, "NotActivated", EMPTY)
             ELSE IF scheme = "Call" /\ f.is_static /\ value # 0
             THEN Exit(js, f.gas, "WriteInStaticContext", EMPTY)
             ELSE IF ~can_record_cost(f.gas, cost) THEN Exit(j1, f.gas, "OutOfGas", EMPTY)
             ELSE IF ~can_record_cost(gas1, gas_limit)
             THEN Exit(j1, gas1, "OutOfGas", EMPTY)
             ELSE IF o.tag = "abort"
             THEN Abort(o.error, o.js)
             ELSE IF o.tag = "return"
             THEN /\ js' = o.js
                  /\ frames' = SetTop(call_return(f1, o.reason, o.gas, o.out))
                  /\ ev' = [type |-> "call_return", reason |-> o.reason,
                            depth |-> Len(frames), ret_gas |-> o.gas]
                  /\ UNCHANGED <<tx_gas, result, pc, hist>>
             ELSE /\ js' = o.js
                  /\ frames' = Append(SetTop(f1), o.frame)
                  /\ hist' = Append(hist, [snap |-> o.snap, view |-> hist[Len(hist)].view,
                                           undone |-> hist[Len(hist)].undone,
                                           neg |-> FALSE,
                                           balanced |-> hist[Len(hist)].balanced,
                                           recold |-> hist[Len(hist)].recold,
                                           logs |-> <<>>,
                                           destroyed |-> hist[Len(hist)].destroyed])
                  /\ ev' = [type |-> "enter", kind |-> "call", depth |-> Len(frames) + 1,
                            scheme |-> scheme, value |-> value,
                            requested |-> local_gas_limit,
                            left |-> remaining(f.gas) - cost]
                  /\ UNCHANGED <<tx_gas, result, pc>>
    /\ nops' = nops + 1
    /\ UNCHANGED <<env, db>>

OpCall == \E c \in Calls : OpCallWith(c)

\* CREATE: the instruction up to host.create, then create_inner up to the
\* new frame
OpCreateWith(value) ==
    /\ Running /\ Top.has_code /\ nops < MaxOps
    /\   LET f == Top
             gas1 == record_cost(f.gas, CREATE)
             gas_limit == IF enabled(GSPEC, TANGERINE)
                          THEN remaining(gas1) - remaining(gas1) \div 64
                          ELSE remaining(gas1)
             gas2 == record_cost(gas1, gas_limit)
             create_input == [caller |-> f.address, scheme |-> "Create", value |-> value,
                              init_code |-> <<96>>, gas_limit |-> gas_limit]
             o == create_inner_enter(GSPEC, js, create_input)
             f1 == [f EXCEPT !.gas = gas2, !.return_data_buffer = EMPTY]
         IN  IF f.is_static THEN Exit(js, f.gas, "WriteInStaticContext", EMPTY)
             ELSE IF ~can_record_cost(f.gas, CREATE) THEN Exit(js, f.gas, "OutOfGas", EMPTY)
             ELSE IF o.tag = "abort"
             THEN Abort(o.error, o.js)
             ELSE IF o.tag = "return"
             THEN /\ js' = o.js
                  /\ frames' = SetTop(create_return(f1, o.reason, o.address, o.gas, o.out))
                  /\ ev' = [type |-> "create_return", reason |-> o.reason,
                            depth |-> Len(frames), address |-> o.address,
                            ret_gas |-> o.gas, gas_limit |-> gas_limit]
                  /\ UNCHANGED <<tx_gas, result, pc, hist>>
             ELSE /\ js' = o.js
                  /\ frames' = Append(SetTop(f1), o.frame)
                  /\ hist' = Append(hist, [snap |-> o.snap,
                                           view |-> ViewOfCreate(hist[Len(hist)].view,
                                                                 o.frame.address),
                                           undone |-> hist[Len(hist)].undone,
                                           neg |-> FALSE,
                                           balanced |-> hist[Len(hist)].balanced,
                                           recold |-> hist[Len(hist)].recold,
                                           logs |-> <<>>,
                                           destroyed |-> hist[Len(hist)].destroyed])
                  /\ ev' = [type |-> "enter", kind |-> "create", depth |-> Len(frames) + 1]
                  /\ UNCHANGED <<tx_gas, result, pc>>
    /\ nops' = nops + 1
    /\ UNCHANGED <<env, db>>

\* CREATE with one of the values the code of the scenario endows with
OpCreate == \E value \in env.create_values : OpCreateWith(value)

\* LOG0 of no data
OpLog ==
    /\ Running /\ Top.has_code /\ nops < MaxOps
    /\ LET f == Top
           cost == log_cost(0, 0)
       IN  IF f.is_static THEN Exit(js, f.gas, "WriteInStaticContext", EMPTY)
           ELSE IF ~can_record_cost(f.gas, cost) THEN Exit(js, f.gas, "OutOfGas", EMPTY)
           ELSE /\ js' = log(js, [address |-> f.address, topics |-> <<>>, data |-> EMPTY])
                /\ frames' = SetTop([f EXCEPT !.gas = record_cost(@, cost)])
                /\ hist' = [hist EXCEPT ![Len(hist)].logs =
                                            Append(@, [address |-> f.address, topics |-> <<>>,
                                                       data |-> EMPTY])]
                /\ ev' = [type |-> "log", address |-> f.address]
                /\ UNCHANGED <<tx_gas, result, pc>>
    /\ nops' = nops + 1
    /\ UNCHANGED <<env, db>>

\* SELFDESTRUCT to a fixed beneficiary
OpSelfdestruct ==
    /\ Running /\ Top.has_code
    /\ LET f == Top
           target == EOA
           res == selfdestruct_result(GSPEC, js, f.address, target)
           j1 == selfdestruct(js, f.address, target)
           gas1 == IF ~enabled(GSPEC, LONDON) /\ ~res.previously_destroyed
                   THEN record_refund(f.gas, SELFDESTRUCT)
                   ELSE f.gas
           cost == selfdestruct_cost(GSPEC, res)
       IN  IF f.is_static THEN Exit(js, f.gas, "WriteInStaticContext", EMPTY)
           ELSE IF ~can_record_cost(gas1, cost) THEN Exit(j1, gas1, "OutOfGas", EMPTY)
           ELSE Exit(j1, record_cost(gas1, cost), "SelfDestruct", EMPTY)
    /\ UNCHANGED <<env, db, nops>>

----------------------------------------------------------------------------
(* The interpreter over the bytes of the code: analysis of the jump        *)
(* destinations, control instructions (control.rs), PUSH (stack.rs) and    *)
(* BLOCKHASH (host.rs, context.rs)                                         *)

opcode ==
    [STOP |-> 0, BLOCKHASH |-> 64, JUMP |-> 86, JUMPI |-> 87, JUMPDEST |-> 91, PUSH1 |-> 96,
     PUSH2 |-> 97]

USIZE_MAX == 2 ^ UsizeBits - 1

as_usize_saturated(x) == Min(x, USIZE_MAX)

\* the byte at a position of the analysed code, which is padded with zeros
byte_at(code, i) == IF i < Len(code) THEN code[i + 1] ELSE 0

\* analyze: the positions of the JUMPDESTs one linear pass from position i
\* finds; the pass skips the n bytes that follow a PUSHn (0x60..0x7F)
RECURSIVE analyze(_, _)
analyze(code, i) ==
    IF i >= Len(code) THEN {}
    ELSE IF code[i + 1] \in 96..127 THEN analyze(code, i + 1 + (code[i + 1] - 95))
    ELSE (IF code[i + 1] = opcode.JUMPDEST THEN {i} ELSE {}) \cup analyze(code, i + 1)

\* a destination is valid where the code holds the byte of JUMPDEST
is_valid_jump_byte(code, dest) == byte_at(code, dest) = opcode.JUMPDEST

\* Contract::is_valid_jump: the bit of the destination in the analysis
is_valid_jump(code, dest) == dest \in analyze(code, 0)

\* every instruction charged as a PUSH
opcode_gas_verylow(op) == 3

\* the base cost an instruction charges
opcode_gas(op) ==
    CASE op = opcode.JUMP -> 8
      [] op = opcode.JUMPI -> 10
      [] op = opcode.JUMPDEST -> 1
      [] op \in {opcode.PUSH1, opcode.PUSH2} -> 3
      [] op = opcode.BLOCKHASH -> 20
      [] OTHER -> 0

\* the hash the database holds for a block number
db_block_hash(number) == 100000 + number

\* Host::block_hash. EVMImpl asks the database; Context asks it when the
\* distance of the number to the current block, both as usize, is in 1..256
block_hash(host, current, number) ==
    LET block_number == as_usize_saturated(current)
        requested_number == as_usize_saturated(number)
        diff == block_number - requested_number
    IN  IF host = "EVMImpl" \/ (block_number >= requested_number /\ diff # 0 /\ diff <= 256)
        THEN [queried |-> TRUE, value |-> db_block_hash(number)]
        ELSE [queried |-> FALSE, value |-> 0]

\* BLOCKHASH that asks the host for every number
blockhash_of_any(host, current, number) == block_hash("EVMImpl", current, number)

\* BLOCKHASH: what the instruction pushes and whether the database was asked.
\* The instruction of host.rs checks the distance itself before it asks the
\* host (EVMImpl); the host Context is handed the number
blockhash(host, current, number) ==
    IF host = "EVMImpl"
    THEN (IF /\ current >= number
             /\ as_usize_saturated(current - number) <= 256
             /\ as_usize_saturated(current - number) # 0
          THEN block_hash(host, current, number)
          ELSE [queried |-> FALSE, value |-> 0])
    ELSE block_hash(host, current, number)

\* one instruction of the interpreter loop
Step ==
    /\ pc = "running" /\ frames # <<>> /\ env.interpret
    /\ LET f == Top
           code == f.bytecode
           ip == f.instruction_pointer
           op == byte_at(code, ip)
           cost == opcode_gas(op)
           gas1 == record_cost(f.gas, cost)
           n == Len(f.stack)
           top == f.stack[n]
           Continue(ip1, stack1, e) ==
               /\ frames' = SetTop([f EXCEPT !.gas = gas1, !.instruction_pointer = ip1,
                                             !.stack = stack1])
               /\ ev' = e
               /\ UNCHANGED <<js, tx_gas, result, pc, hist>>
           Jump(dest, stack1) ==
               \* as_usize_or_fail!(dest, Return::InvalidJump)
               IF dest <= USIZE_MAX /\ is_valid_jump(code, dest)
               THEN Continue(dest, stack1, [type |-> "step", opcode |-> op])
               ELSE Exit(js, gas1, "InvalidJump", EMPTY)
       IN  IF ~can_record_cost(f.gas, cost) THEN Exit(js, f.gas, "OutOfGas", EMPTY)
           ELSE CASE op = opcode.STOP -> Exit(js, gas1, "Stop", EMPTY)
             [] op = opcode.PUSH1 ->
                  Continue(ip + 2, Append(f.stack, byte_at(code, ip + 1)),
                           [type |-> "step", opcode |-> op])
             [] op = opcode.PUSH2 ->
                  Continue(ip + 3, Append(f.stack, 256 * byte_at(code, ip + 1)
                                                   + byte_at(code, ip + 2)),
                           [type |-> "step", opcode |-> op])
             [] op = opcode.JUMPDEST ->
                  Continue(ip + 1, f.stack, [type |-> "step", opcode |-> op])
             [] op = opcode.JUMP ->
                  IF n < 1 THEN Exit(js, gas1, "StackUnderflow", EMPTY)
                  ELSE Jump(top, SubSeq(f.stack, 1, n - 1))
             [] op = opcode.JUMPI ->
                  \* pop!(interpreter, dest, value)
                  IF n < 2 THEN Exit(js, gas1, "StackUnderflow", EMPTY)
                  ELSE IF f.stack[n - 1] # 0 THEN Jump(top, SubSeq(f.stack, 1, n - 2))
                  ELSE Continue(ip + 1, SubSeq(f.stack, 1, n - 2),
                                [type |-> "step", opcode |-> op])
             [] op = opcode.BLOCKHASH ->
                  IF n < 1 THEN Exit(js, gas1, "StackUnderflow", EMPTY)
                  ELSE LET r == blockhash(env.host, env.block_number, top)
                       IN  IF r.queried /\ env.block_hash_error
                           THEN Abort("DatabaseFailure", js)
                           ELSE Continue(ip + 1, Append(SubSeq(f.stack, 1, n - 1), r.value),
                                         [type |-> "blockhash", number |-> top,
                                          value |-> r.value, queried |-> r.queried])
             [] OTHER -> Exit(js, gas1, "OpcodeNotFound", EMPTY)
    /\ UNCHANGED <<env, db, nops>>

----------------------------------------------------------------------------
(* Initial states: a transaction env and a backing database *)

BaseEnv ==
    [spec_id |-> LONDON, prevrandao |-> TRUE, basefee |-> 1, block_gas_limit |-> 200000,
     coinbase |-> COINBASE, caller |-> CALLER,
     transact_to |-> [kind |-> "Call", address |-> EOA],
     value |-> 0, data |-> <<>>, gas_limit |-> 100000, limit_contract_code_size |-> 24576,
     gas_price |-> 2, gas_priority_fee |-> None, nonce |-> 0, access_list |-> <<>>,
     disable_balance_check |-> FALSE, disable_gas_refund |-> FALSE,
     disable_block_gas_limit |-> FALSE, disable_eip3607 |-> FALSE,
     precompile |-> [address |-> 0, out |-> [ok |-> TRUE, gas_used |-> 0, data |-> <<>>]],
     block_number |-> 1, block_hash_error |-> FALSE, host |-> "EVMImpl",
     interpret |-> FALSE, initialize_interp |-> "Continue", max_frames |-> MaxFrames,
     create_values |-> CreateValues]

BaseCaller == [balance |-> 1000000, nonce |-> 0, code |-> <<>>]

\* transactions that vary what the fee and balance checks read
FeeScenarios ==
    {[env |-> [BaseEnv EXCEPT !.spec_id = s, !.basefee = bf, !.gas_limit = gl,
                              !.gas_price = gp, !.gas_priority_fee = pf, !.value = v,
                              !.disable_balance_check = dbc],
      caller |-> [BaseCaller EXCEPT !.balance = b]] :
        s \in {BERLIN, LONDON}, bf \in {0, 2}, gl \in {21000, 30000}, gp \in {1, 3},
        pf \in {None, 0, 5}, v \in {0, 10}, dbc \in BOOLEAN,
        b \in {0, 21009, 21010, 63010, 90010}}

\* transactions that vary what the other validity checks read
RejectScenarios ==
    {[env |-> [BaseEnv EXCEPT !.spec_id = s, !.prevrandao = pr, !.gas_limit = gl,
                              !.block_gas_limit = 30000,
                              !.disable_block_gas_limit = dbg, !.disable_eip3607 = d36,
                              !.nonce = tn],
      caller |-> [BaseCaller EXCEPT !.nonce = cn, !.code = cc]] :
        s \in {BERLIN, LONDON, MERGE}, pr \in BOOLEAN, gl \in {20000, 21000, 40000},
        dbg \in BOOLEAN, d36 \in BOOLEAN, tn \in {0, 1}, cn \in {0, 1, U64_MAX},
        cc \in {<<>>, <<96>>}}

\* transactions that run code
ExecEnv ==
    [BaseEnv EXCEPT !.gas_price = 3, !.gas_priority_fee = 1,
                    !.transact_to = [kind |-> "Call", address |-> CONTRACT_X]]

\* a transaction that creates a contract
CreateEnv ==
    [ExecEnv EXCEPT !.transact_to = [kind |-> "Create", address |-> None],
                    !.data = <<96>>, !.value = 10]

ExecScenarios ==
    {[env |-> [ExecEnv EXCEPT !.spec_id = s, !.value = v], caller |-> BaseCaller] :
        s \in {BERLIN, LONDON}, v \in {0, 10}}
    \cup {[env |-> [ExecEnv EXCEPT !.disable_gas_refund = TRUE], caller |-> BaseCaller]}
    \cup {[env |-> CreateEnv, caller |-> BaseCaller]}
    \cup {[env |-> [ExecEnv EXCEPT !.spec_id = FRONTIER, !.gas_limit = 1033000,
                                   !.value = 10, !.disable_block_gas_limit = TRUE],
           caller |-> [BaseCaller EXCEPT !.balance = 4000000]]}
    \cup {[env |-> [ExecEnv EXCEPT !.transact_to = [kind |-> "Call", address |-> CONTRACT_Y],
                                   !.value = 10],
           caller |-> BaseCaller]}

\* transactions that vary what the intrinsic gas reads, with a gas limit just
\* below the intrinsic gas and equal to it
IntrinsicScenarios ==
    {[env |-> [e EXCEPT !.gas_limit = initialization(e.spec_id, e) + dl],
      caller |-> BaseCaller] :
        e \in {[BaseEnv EXCEPT !.spec_id = s, !.transact_to = to, !.data = d,
                               !.access_list = al] :
                    s \in {FRONTIER, HOMESTEAD, ISTANBUL, BERLIN},
                    to \in {[kind |-> "Call", address |-> EOA],
                            [kind |-> "Create", address |-> None]},
                    d \in {<<>>, <<0, 96>>},
                    al \in {<<>>, <<[address |-> CONTRACT_Y, slots |-> <<1>>]>>}},
        dl \in {-1, 0}}

\* transactions that vary what the nonce of the caller depends on: a create
\* whose value the caller cannot pay once the balance check is disabled, and
\* a caller that has code and is called itself once EIP-3607 is disabled
NonceScenarios ==
    {[env |-> [CreateEnv EXCEPT !.disable_balance_check = TRUE],
      caller |-> [BaseCaller EXCEPT !.balance = 200005]],
     [env |-> [ExecEnv EXCEPT !.disable_eip3607 = TRUE,
                              !.transact_to = [kind |-> "Call", address |-> CALLER]],
      caller |-> [BaseCaller EXCEPT !.code = <<96>>]]}

\* creates whose derived address is taken: the create transaction finds an
\* account with a nonce, the CREATE of CONTRACT_X an account with code
CollisionScenarios ==
    {[env |-> CreateEnv, caller |-> BaseCaller,
      existing |-> [balance |-> 3, nonce |-> 1, code |-> <<>>]],
     [env |-> ExecEnv, caller |-> BaseCaller,
      existing |-> [balance |-> 3, nonce |-> 0, code |-> <<96>>]]}

\* create transactions with a value that leave the init code 100 gas, before
\* and from Homestead
DepositScenarios ==
    {[env |-> [e EXCEPT !.gas_limit = initialization(e.spec_id, e) + 100],
      caller |-> BaseCaller] :
        e \in {[CreateEnv EXCEPT !.spec_id = s] : s \in {FRONTIER, HOMESTEAD}}}

\* transactions during which a lookup of the database fails: of an address
\* of the access list, of the caller, of the beneficiary, of the called account
DatabaseScenarios ==
    {[env |-> [BaseEnv EXCEPT !.spec_id = BERLIN,
                              !.access_list = <<[address |-> CONTRACT_Y, slots |-> <<>>]>>],
      caller |-> BaseCaller, failing |-> {a}] : a \in {CONTRACT_Y, CALLER, COINBASE, EOA}}

\* call transactions with a value to an address that holds a precompile, one
\* for each thing the precompile returns: Ok((gas_used, data)) or Err(e); the
\* frame of the call has a gas limit of 79000
PrecompileScenarios ==
    LET outputs ==
            {[ok |-> TRUE, gas_used |-> g, data |-> <<96>>] : g \in {0, 3000, 79000, 79001}}
            \cup {[ok |-> FALSE, error |-> e] :
                    e \in {"OutOfGas", "Blake2WrongLength", "Blake2WrongFinalIndicatorFlag",
                           "ModexpExpOverflow", "ModexpBaseOverflow", "ModexpModOverflow",
                           "Bn128FieldPointNotAMember", "Bn128AffineGFailedToCreate",
                           "Bn128PairLength"}}
    IN  {[env |-> [BaseEnv EXCEPT !.value = 10, !.precompile = [address |-> EOA, out |-> o]],
          caller |-> BaseCaller] : o \in outputs}

\* transactions that call CONTRACT_X and execute the bytes of its code
InterpretEnv == [ExecEnv EXCEPT !.interpret = TRUE]

\* programs that jump: PUSH1 dest, JUMP and PUSH1 cond, PUSH1 dest, JUMPI, each
\* followed by three bytes out of STOP, JUMPDEST, PUSH1 and PUSH2; a JUMP to a
\* destination beyond usize; the program of test_gas_inspector with its gas
\* limit of 21100
JumpScenarios ==
    LET tails == [1..3 -> {opcode.STOP, opcode.JUMPDEST, opcode.PUSH1, opcode.PUSH2}]
    IN  {[env |-> InterpretEnv, caller |-> BaseCaller,
          bytecode |-> <<opcode.PUSH1, dest, opcode.JUMP>> \o t] :
            dest \in {0, 3, 4, 5, 6}, t \in tails}
        \cup {[env |-> InterpretEnv, caller |-> BaseCaller,
               bytecode |-> <<opcode.PUSH1, cond, opcode.PUSH1, dest, opcode.JUMPI>> \o t] :
            cond \in {0, 2}, dest \in {5, 6, 7, 8}, t \in tails}
        \cup {[env |-> InterpretEnv, caller |-> BaseCaller,
               bytecode |-> <<opcode.PUSH2, 255, 255, opcode.JUMP>>],
              [env |-> [InterpretEnv EXCEPT !.gas_limit = 21100, !.basefee = 0,
                                            !.gas_price = 0, !.gas_priority_fee = None],
               caller |-> BaseCaller,
               bytecode |-> <<opcode.PUSH1, 1, opcode.PUSH1, 11, opcode.JUMPI,
                              opcode.PUSH1, 1, opcode.PUSH1, 1, opcode.PUSH1, 1,
                              opcode.JUMPDEST, opcode.STOP>>]}

\* programs PUSH2 number, BLOCKHASH, STOP in blocks whose number is small, is
\* past the window of 256 and is beyond usize, over both hosts and over a
\* database whose block_hash fails
BlockhashScenarios ==
    {[env |-> [InterpretEnv EXCEPT !.host = h, !.block_number = current,
                                   !.block_hash_error = err],
      caller |-> BaseCaller,
      bytecode |-> <<opcode.PUSH2, number \div 256, number % 256, opcode.BLOCKHASH,
                     opcode.STOP>>] :
        h \in {"EVMImpl", "Context"}, err \in BOOLEAN,
        current \in {0, 1, 300, USIZE_MAX + 5, USIZE_MAX + 300},
        number \in {0, 1, 2, 43, 44, 299, 300, 301, USIZE_MAX - 1, USIZE_MAX, USIZE_MAX + 4,
                    USIZE_MAX + 5, USIZE_MAX + 6, USIZE_MAX + 44}}

\* an inspector whose initialize_interp returns another Eval than Continue,
\* for the frame of a call and for the frame of a create
InspectorScenarios ==
    {[env |-> [InterpretEnv EXCEPT !.initialize_interp = r], caller |-> BaseCaller,
      bytecode |-> <<opcode.PUSH1, 1, opcode.STOP>>] : r \in {"Stop", "Revert"}}
    \cup {[env |-> [CreateEnv EXCEPT !.interpret = TRUE, !.initialize_interp = "Revert",
                                     !.data = <<opcode.PUSH1, 1, opcode.STOP>>],
           caller |-> BaseCaller]}

\* a transaction whose code nests its calls one frame deeper, so that the
\* frame of a STATICCALL makes calls of its own
StaticScenarios ==
    {[env |-> [ExecEnv EXCEPT !.max_frames = MaxStaticFrames], caller |-> BaseCaller]}

\* a transaction whose code endows the contracts it creates with a value
\* above every balance
EndowScenarios ==
    {[env |-> [ExecEnv EXCEPT !.create_values = {1000}], caller |-> BaseCaller]}

Scenarios ==
    EndowScenarios \cup StaticScenarios \cup InspectorScenarios \cup JumpScenarios \cup BlockhashScenarios \cup PrecompileScenarios \cup DatabaseScenarios \cup DepositScenarios \cup FeeScenarios \cup RejectScenarios \cup ExecScenarios \cup IntrinsicScenarios
    \cup NonceScenarios \cup CollisionScenarios

InitialDb(caller) ==
    [a \in Addr |->
        CASE a = CALLER -> [balance |-> caller.balance, nonce |-> caller.nonce,
                            code |-> caller.code, exists |-> TRUE,
                            storage |-> [k \in Slots |-> 0], error |-> FALSE]
          [] a = CONTRACT_X -> [balance |-> 5, nonce |-> 1, code |-> <<96>>, exists |-> TRUE,
                                storage |-> [k \in Slots |-> 0], error |-> FALSE]
          [] a = CONTRACT_Y -> [balance |-> 0, nonce |-> 1, code |-> <<96>>, exists |-> TRUE,
                                storage |-> [k \in Slots |-> 42], error |-> FALSE]
          [] a = EOA -> [balance |-> 7, nonce |-> 0, code |-> <<>>, exists |-> TRUE,
                         storage |-> [k \in Slots |-> 0], error |-> FALSE]
          [] OTHER -> [balance |-> 0, nonce |-> 0, code |-> <<>>, exists |-> FALSE,
                       storage |-> [k \in Slots |-> 0], error |-> FALSE]]

\* the database of a scenario: the account at the address the first create
\* derives exists in the scenarios that name it, and the lookups of the
\* addresses a scenario names fail
ScenarioDb(sc) ==
    LET d == IF "existing" \in DOMAIN sc
             THEN [InitialDb(sc.caller) EXCEPT
                     ![NEW_B] = [balance |-> sc.existing.balance, nonce |-> sc.existing.nonce,
                                 code |-> sc.existing.code, exists |-> TRUE,
                                 storage |-> [k \in Slots |-> 42], error |-> FALSE]]
             ELSE InitialDb(sc.caller)
    IN  IF "failing" \in DOMAIN sc
        THEN [a \in Addr |-> [d[a] EXCEPT !.error = a \in sc.failing]]
        ELSE IF "bytecode" \in DOMAIN sc
        THEN [d EXCEPT ![CONTRACT_X].code = sc.bytecode]
        ELSE d

Init ==
    \E sc \in Scenarios :
        /\ env = sc.env
        /\ db = ScenarioDb(sc)
        /\ js = JournaledState_new(ScenarioDb(sc))
        /\ frames = <<>>
        /\ tx_gas = Gas_new(sc.env.gas_limit)
        /\ pc = "start"
        /\ result = [error |-> "none"]
        /\ hist = <<>>
        /\ ev = [type |-> "none"]
        /\ nops = 0

Next ==
    \/ Transact
    \/ OpStop
    \/ OpReturn
    \/ OpRevert
    \/ OpInvalid
    \/ OpSload
    \/ OpSstore
    \/ OpBalance
    \/ OpCall
    \/ OpCreate
    \/ OpLog
    \/ OpSelfdestruct
    \/ Step
    \/ Finalize

Spec == Init /\ [][Next]_vars

----------------------------------------------------------------------------
(* CacheState (state/in_memory_state.rs): a cache of accounts layered over a
   backing state.  In this specification db is init_state, a CacheState over
   EmptyState, and js is new_state, a CacheState over init_state; pc names the
   CacheState the calls go to, ev is the last call that changed it, result
   the value the last query returned and hist the history of new_state. *)

\* number of calls on the two CacheStates together
MaxCacheOps == 4

CacheAddr == {CALLER, EOA}
CacheKeys == {0, 1}

\* the storage maps a caller hands over: HashMap<U256, U256>
StorageMaps == UNION {[K -> {0, 2}] : K \in SUBSET CacheKeys}

\* the hash of the empty bytecode; B256::zero() is 0
KECCAK_EMPTY == 1

\* Bytecode::hash: the empty bytecode and the bytecodes of one byte
Bytecode_hash(code) == IF code = <<>> THEN KECCAK_EMPTY ELSE 2 + code[1]

\* Option<Bytecode>
SomeCode(code) == [some |-> TRUE, bytes |-> code]
NoCode == [some |-> FALSE, bytes |-> <<>>]

\* AccountInfo::default() and the infos a caller inserts: a nonce with a
\* zero code hash, and a bytecode
AccountInfo_default == [balance |-> 0, nonce |-> 0, code_hash |-> KECCAK_EMPTY, code |-> NoCode]
AccountInfos ==
    {[balance |-> 0, nonce |-> 2, code_hash |-> 0, code |-> NoCode],
     [balance |-> 0, nonce |-> 0, code_hash |-> 0, code |-> SomeCode(<<96>>)]}

EmptyState == [empty |-> TRUE]

\* Option<AccountInfo>
Some(i) == [some |-> TRUE, info |-> i]
NoAccount == [some |-> FALSE, info |-> AccountInfo_default]

StateAccount_default == [info |-> AccountInfo_default, account_state |-> "None", storage |-> <<>>]

new_not_existing == [info |-> AccountInfo_default, account_state |-> "NotExisting", storage |-> <<>>]

\* StateAccount from Option<AccountInfo>
StateAccount_from(from) ==
    IF from.some
    THEN [StateAccount_default EXCEPT !.info = from.info]
    ELSE new_not_existing

\* StateAccount::info
info(acc) == IF acc.account_state = "NotExisting" THEN NoAccount ELSE Some(acc.info)

\* HashMap::insert
insert(map, key, value) == [k \in DOMAIN map \cup {key} |-> IF k = key THEN value ELSE map[k]]

CacheState_new(ext) ==
    [accounts |-> <<>>,
     contracts |-> insert(insert(<<>>, KECCAK_EMPTY, <<>>), 0, <<>>),
     ext |-> ext]

\* insert_contract: the cache and the account info it leaves
insert_contract(c, account) ==
    LET hashed == account.code.some /\ account.code.bytes # <<>>
        a1 == IF hashed
              THEN [account EXCEPT !.code_hash = Bytecode_hash(account.code.bytes)]
              ELSE account
        c1 == IF hashed /\ a1.code_hash \notin DOMAIN c.contracts
              THEN [c EXCEPT !.contracts = insert(@, a1.code_hash, account.code.bytes)]
              ELSE c
    IN  [cache |-> c1,
         info |-> IF a1.code_hash = 0 THEN [a1 EXCEPT !.code_hash = KECCAK_EMPTY] ELSE a1]

\* StateRef::code_by_hash of EmptyState and of CacheState
RECURSIVE StateRef_code_by_hash(_, _)
StateRef_code_by_hash(c, code_hash) ==
    IF "empty" \in DOMAIN c THEN <<>>
    ELSE IF code_hash \in DOMAIN c.contracts THEN c.contracts[code_hash]
    ELSE StateRef_code_by_hash(c.ext, code_hash)

\* StateRef::basic of EmptyState and of CacheState
RECURSIVE StateRef_basic(_, _)
StateRef_basic(c, address) ==
    IF "empty" \in DOMAIN c THEN NoAccount
    ELSE IF address \in DOMAIN c.accounts THEN info(c.accounts[address])
    ELSE StateRef_basic(c.ext, address)

\* StateRef::storage of EmptyState and of CacheState
RECURSIVE StateRef_storage(_, _, _)
StateRef_storage(c, address, index) ==
    IF "empty" \in DOMAIN c THEN 0
    ELSE IF address \in DOMAIN c.accounts
    THEN LET acc_entry == c.accounts[address]
         IN  IF index \in DOMAIN acc_entry.storage THEN acc_entry.storage[index]
             ELSE IF acc_entry.account_state \in {"StorageCleared", "NotExisting"} THEN 0
             ELSE StateRef_storage(c.ext, address, index)
    ELSE StateRef_storage(c.ext, address, index)

\* load_account: the cache with the account loaded from ext when it is vacant
CacheState_load_account(c, address) ==
    IF address \in DOMAIN c.accounts THEN c
    ELSE [c EXCEPT !.accounts = insert(@, address, StateAccount_from(StateRef_basic(c.ext, address)))]

insert_account_info(c, address, i) ==
    LET r == insert_contract(c, i)
        acc == IF address \in DOMAIN c.accounts
               THEN c.accounts[address]
               ELSE StateAccount_default
    IN  [r.cache EXCEPT !.accounts = insert(@, address, [acc EXCEPT !.info = r.info])]

\* insert_account_storage on a default entry instead of the loaded account
insert_account_storage_or_default(c, address, slot, value) ==
    LET acc == IF address \in DOMAIN c.accounts
               THEN c.accounts[address]
               ELSE StateAccount_default
    IN  [c EXCEPT !.accounts = insert(@, address, [acc EXCEPT !.storage = insert(@, slot, value)])]

insert_account_storage(c, address, slot, value) ==
    LET c1 == CacheState_load_account(c, address)
    IN  [c1 EXCEPT !.accounts[address].storage = insert(@, slot, value)]

\* replace_account_storage that leaves account_state as it is
replace_account_storage_keeps_state(c, address, storage_) ==
    LET c1 == CacheState_load_account(c, address)
    IN  [c1 EXCEPT !.accounts[address].storage = storage_]

replace_account_storage(c, address, storage_) ==
    LET c1 == CacheState_load_account(c, address)
    IN  [c1 EXCEPT !.accounts[address].account_state = "StorageCleared",
                   !.accounts[address].storage = storage_]

\* DatabaseCommit::commit of one changed account
commit(c, address, account) ==
    LET db_account == IF address \in DOMAIN c.accounts
                      THEN c.accounts[address]
                      ELSE StateAccount_default
        kept == IF account.storage_cleared THEN <<>> ELSE db_account.storage
        r == insert_contract(c, account.info)
    IN  IF account.is_destroyed
        THEN [c EXCEPT !.accounts = insert(@, address, new_not_existing)]
        ELSE [r.cache EXCEPT !.accounts =
                 insert(@, address,
                        [info |-> r.info,
                         account_state |-> IF account.storage_cleared
                                           THEN "StorageCleared"
                                           ELSE "Touched",
                         storage |-> [k \in DOMAIN kept \cup DOMAIN account.storage |->
                                         IF k \in DOMAIN account.storage
                                         THEN account.storage[k]
                                         ELSE kept[k]]])]

\* State::basic: the cache it leaves and the value it returns
basic(c, address) ==
    LET c1 == CacheState_load_account(c, address)
    IN  [cache |-> c1, value |-> info(c1.accounts[address])]

\* State::storage: the cache it leaves and the value it returns
storage(c, address, index) ==
    IF address \in DOMAIN c.accounts
    THEN LET acc_entry == c.accounts[address]
         IN  IF index \in DOMAIN acc_entry.storage
             THEN [cache |-> c, value |-> acc_entry.storage[index]]
             ELSE IF acc_entry.account_state \in {"StorageCleared", "NotExisting"}
             THEN [cache |-> c, value |-> 0]
             ELSE LET slot == StateRef_storage(c.ext, address, index)
                  IN  [cache |-> [c EXCEPT !.accounts[address].storage = insert(@, index, slot)],
                       value |-> slot]
    ELSE LET i == StateRef_basic(c.ext, address)
             value == IF i.some THEN StateRef_storage(c.ext, address, index) ELSE 0
             account == IF i.some
                        THEN [StateAccount_from(i) EXCEPT !.storage = insert(@, index, value)]
                        ELSE StateAccount_from(i)
         IN  [cache |-> [c EXCEPT !.accounts = insert(@, address, account)], value |-> value]

\* the CacheState the calls go to
Target == IF pc = "init_state" THEN db ELSE js

\* history of new_state: the slots of the account written since the last
\* commit that destroyed it
Written(address, slots) ==
    IF pc = "init_state" THEN hist ELSE [hist EXCEPT ![address].written = @ \cup slots]

\* a call leaves the cache c, the record e of the call, the value r and the
\* history h
Called(c, e, r, h) ==
    /\ nops' = nops + 1
    /\ IF pc = "init_state"
       THEN db' = c /\ js' = js
       ELSE js' = [c EXCEPT !.ext = db] /\ db' = db
    /\ ev' = e
    /\ result' = r
    /\ hist' = h
    /\ UNCHANGED <<env, frames, tx_gas, pc>>

NoValue == [op |-> "none"]

InsertAccountInfo ==
    /\ nops < MaxCacheOps
    /\ \E address \in CacheAddr, i \in AccountInfos :
           Called(insert_account_info(Target, address, i),
                  [type |-> "insert_account_info", address |-> address, info |-> i,
                   storage |-> IF address \in DOMAIN Target.accounts
                               THEN Target.accounts[address].storage
                               ELSE <<>>,
                   cached |-> address \in DOMAIN Target.accounts],
                  NoValue, hist)

InsertAccountStorage ==
    /\ nops < MaxCacheOps
    /\ \E address \in CacheAddr, slot \in CacheKeys, value \in {1, 2} :
           Called(insert_account_storage(Target, address, slot, value),
                  [type |-> "insert_account_storage", address |-> address,
                   slot |-> slot, value |-> value,
                   cached |-> address \in DOMAIN Target.accounts,
                   backing |-> StateRef_basic(Target.ext, address)],
                  NoValue, Written(address, {<<slot, value>>}))

ReplaceAccountStorage ==
    /\ nops < MaxCacheOps
    /\ \E address \in CacheAddr, storage_ \in StorageMaps :
           Called(replace_account_storage(Target, address, storage_),
                  [type |-> "replace_account_storage", address |-> address, storage |-> storage_,
                   cached |-> address \in DOMAIN Target.accounts,
                   backing |-> StateRef_basic(Target.ext, address)],
                  NoValue, Written(address, {<<k, storage_[k]>> : k \in DOMAIN storage_}))

Commit ==
    /\ nops < MaxCacheOps
    /\ \E address \in CacheAddr, is_destroyed \in BOOLEAN, storage_cleared \in BOOLEAN :
           Called(commit(Target, address,
                         [info |-> [AccountInfo_default EXCEPT !.balance = 1, !.nonce = 1],
                          is_destroyed |-> is_destroyed,
                          storage_cleared |-> storage_cleared, storage |-> (1 :> 1)]),
                  [type |-> "commit", address |-> address, is_destroyed |-> is_destroyed],
                  NoValue,
                  IF pc = "init_state" THEN hist
                  ELSE IF is_destroyed
                  THEN [hist EXCEPT ![address] = [destroyed |-> TRUE, written |-> {}]]
                  ELSE Written(address, {<<1, 1>>}))

\* basic(address): a query, ev keeps the last call that changed the cache
Basic ==
    /\ nops < MaxCacheOps
    /\ \E address \in CacheAddr :
           LET r == basic(Target, address)
           IN  Called(r.cache, ev, [op |-> "basic", address |-> address, value |-> r.value],
                      hist)

\* storage(address, index)
Storage ==
    /\ nops < MaxCacheOps
    /\ \E address \in CacheAddr, index \in CacheKeys :
           LET r == storage(Target, address, index)
           IN  Called(r.cache, ev,
                      [op |-> "storage", address |-> address, index |-> index, value |-> r.value],
                      hist)

\* let mut new_state = CacheState::new(init_state)
Layer ==
    /\ pc = "init_state"
    /\ pc' = "new_state"
    /\ js' = CacheState_new(db)
    /\ ev' = [type |-> "new"]
    /\ result' = NoValue
    /\ hist' = [a \in CacheAddr |-> [destroyed |-> FALSE, written |-> {}]]
    /\ UNCHANGED <<env, db, frames, tx_gas, nops>>

InitCache ==
    /\ env = BaseEnv
    /\ db = CacheState_new(EmptyState)
    /\ js = CacheState_new(EmptyState)
    /\ frames = <<>>
    /\ tx_gas = Gas_new(0)
    /\ pc = "init_state"
    /\ result = NoValue
    /\ hist = <<>>
    /\ ev = [type |-> "new"]
    /\ nops = 0

NextCache ==
    \/ InsertAccountInfo
    \/ InsertAccountStorage
    \/ ReplaceAccountStorage
    \/ Commit
    \/ Basic
    \/ Storage
    \/ Layer

SpecCache == InitCache /\ [][NextCache]_vars

----------------------------------------------------------------------------
(* Properties *)

Completed == pc = "done"

\* a halt: an exit that is neither a success nor a REVERT
Halt(reason) == ~return_ok(reason) /\ reason # "Revert"

max_refund_quotient == IF enabled(GSPEC, LONDON) THEN 5 ELSE 2

RECURSIVE SumBalances(_, _)
SumBalances(balance_of, S) ==
    IF S = {} THEN 0
    ELSE LET a == CHOOSE x \in S : TRUE
         IN  balance_of[a].balance + SumBalances(balance_of, S \ {a})

\* the basefee part of the gas the transaction paid for, burned from London
Burned ==
    IF enabled(GSPEC, LONDON) THEN env.basefee * (spend(tx_gas) - result.gas_refunded)
    ELSE 0

\* C1: when a call or create frame exits with anything but a success, the
\* journaled state (accounts with their storage, warmness, balances, nonces
\* and code, the journal, the logs) is the one immediately before the frame's
\* checkpoint was taken, which still holds what the caller did before.
C1_FailedFrameRestoresCheckpoint ==
    (ev.type = "exit" /\ ~return_ok(ev.reason)) => js = ev.snap

\* a sub-frame that changed the state halts after its caller wrote a slot
C1_Witness ==
    /\ ev.type = "exit" /\ ev.depth = 2 /\ ~return_ok(ev.reason) /\ ev.changed
    /\ js.accounts[CONTRACT_X].storage[1].present = 42

\* C2: when transact rejects the transaction with a transaction-level error,
\* the caller's balance and nonce in the journaled state are what they were
\* before the call.
C2_RejectionChangesNothing ==
    pc = "rejected" =>
        /\ js.accounts[env.caller].balance = db[env.caller].balance
        /\ js.accounts[env.caller].nonce = db[env.caller].nonce

\* a transaction rejected with OutOfFund after the gas payment was taken
C2_Witness ==
    /\ pc = "rejected" /\ result.error = "OutOfFund"
    /\ js.accounts[env.caller].balance < db[env.caller].balance

C4_HaltConsumesAllGas ==
    /\ (ev.type = "exit" /\ Halt(ev.reason) /\ ev.depth > 1) =>
            /\ Top.gas = ev.parent_gas
            /\ Top.stack_top = 0
            /\ pc = "running"
    /\ (ev.type = "exit" /\ Halt(ev.reason) /\ ev.depth = 1) =>
            /\ spend(tx_gas) = env.gas_limit
            /\ refunded(tx_gas) = 0
    /\ (Completed /\ Halt(result.exit_reason)) =>
            /\ result.gas_used = env.gas_limit
            /\ result.gas_refunded = 0

\* a sub-frame halts with gas left
C4_Witness ==
    /\ ev.type = "exit" /\ ev.depth = 2 /\ ev.reason = "InvalidOpcode"
    /\ remaining(ev.interp_gas) > 0

\* C5: a frame that ends with REVERT hands its caller exactly its remaining
\* gas, none of its refund counter, and its return data; at top level the
\* result is a Revert with gas_used = gas_limit - remaining gas of the frame.
C5_RevertReturnsRemainingGas ==
    /\ (ev.type = "exit" /\ ev.reason = "Revert" /\ ev.depth > 1) =>
            /\ remaining(Top.gas) = remaining(ev.parent_gas) + remaining(ev.ret_gas)
            /\ refunded(Top.gas) = refunded(ev.parent_gas)
            /\ Top.return_data_buffer = ev.out
            /\ Top.stack_top = 0
    /\ (ev.type = "exit" /\ ev.reason = "Revert" /\ ev.depth = 1) =>
            /\ spend(tx_gas) = env.gas_limit - remaining(ev.ret_gas)
            /\ refunded(tx_gas) = 0
            /\ result.exit_reason = "Revert"
            /\ result.out = ev.out
    /\ (Completed /\ ev.exit.type = "exit" /\ ev.exit.reason = "Revert") =>
            /\ result.exit_reason = "Revert"
            /\ result.gas_used = env.gas_limit - remaining(ev.exit.ret_gas)

\* a sub-frame reverts with gas left and a refund counter above 0
C5_Witness ==
    /\ ev.type = "exit" /\ ev.depth = 2 /\ ev.reason = "Revert"
    /\ remaining(ev.ret_gas) > 0 /\ refunded(ev.ret_gas) > 0

C7_RefundCapped ==
    Completed =>
        /\ result.gas_refunded <= spend(tx_gas) \div max_refund_quotient
        /\ env.disable_gas_refund => result.gas_refunded = 0

\* the cap cuts a refund counter that is above it
C7_Witness ==
    /\ Completed /\ enabled(GSPEC, LONDON)
    /\ result.gas_refunded > 0
    /\ result.gas_refunded = spend(tx_gas) \div 5
    /\ refunded(tx_gas) > result.gas_refunded

\* C8 as stated: the granted refund is min(accumulated refund, gas spent / q).
C8_RefundIsMin ==
    Completed =>
        result.gas_refunded = Min(refunded(tx_gas), spend(tx_gas) \div max_refund_quotient)

\* C8: unless refunds are disabled, the granted refund is min(accumulated
\* refund, gas spent / q); the counter of a frame may end negative, the
\* accumulated counter of the transaction does not, and the granted refund
\* is never above it.
C8_RefundIsMinWhenEnabled ==
    Completed =>
        /\ refunded(tx_gas) >= 0
        /\ result.gas_refunded <= refunded(tx_gas)
        /\ ~env.disable_gas_refund =>
               result.gas_refunded = Min(refunded(tx_gas),
                                         spend(tx_gas) \div max_refund_quotient)

\* a frame's refund counter ended negative and the transaction is granted
\* its whole accumulated counter
C8_Witness ==
    /\ Completed /\ ev.exit.type = "exit" /\ ev.exit.neg
    /\ refunded(tx_gas) > 0
    /\ result.gas_refunded = refunded(tx_gas)

\* C9: a transaction runs only if the caller's nonce is the transaction's.
C9_NonceMatches ==
    pc \in {"running", "finalize", "done"} => db[env.caller].nonce = env.nonce

\* C10: with the balance check enabled, a transaction runs only if the
\* caller's balance is at least gas_limit x gas_price + value.
C10_BalanceCoversMaxFee ==
    (~env.disable_balance_check /\ pc \in {"running", "finalize", "done"}) =>
        db[env.caller].balance >= env.gas_limit * env.gas_price + env.value

\* the intrinsic gas as the claim states it
IntrinsicGas ==
    (IF env.transact_to.kind = "Create" /\ enabled(GSPEC, HOMESTEAD) THEN 53000 ELSE 21000)
    + 4 * Cardinality({i \in DOMAIN env.data : env.data[i] = 0})
    + (IF enabled(GSPEC, ISTANBUL) THEN 16 ELSE 68)
      * Cardinality({i \in DOMAIN env.data : env.data[i] # 0})
    + (IF enabled(GSPEC, BERLIN)
       THEN 2400 * Len(env.access_list)
            + 1900 * accessed_slots(env.access_list)
       ELSE 0)

\* C11: a transaction is rejected for its gas only when its gas limit is
\* below the intrinsic gas (21000 or 53000, 4 / 16 or 68 per data byte, 2400
\* and 1900 per access list entry from Berlin), it never runs with a gas limit
\* below it, and the top frame starts with exactly gas_limit - intrinsic gas.
C11_IntrinsicGasCharged ==
    /\ (pc = "rejected" /\ result.error = "OutOfGas") => env.gas_limit < IntrinsicGas
    /\ (pc # "start" /\ env.gas_limit < IntrinsicGas) => pc = "rejected"
    /\ (ev.type = "enter" /\ ev.depth = 1) =>
            /\ Top.gas = Gas_new(env.gas_limit - IntrinsicGas)
            /\ spend(tx_gas) = env.gas_limit

\* a Berlin transaction with data and an access list whose gas limit is the
\* intrinsic gas enters its top frame
C11_Witness ==
    /\ ev.type = "enter" /\ ev.depth = 1 /\ enabled(GSPEC, BERLIN)
    /\ env.data # <<>> /\ env.access_list # <<>>
    /\ env.gas_limit = IntrinsicGas /\ remaining(Top.gas) = 0

\* C12 as stated: every transaction that yields an execution result leaves
\* the caller's nonce at its nonce before the transaction plus one.
C12_CallerNonceIncremented ==
    Completed => js.accounts[env.caller].nonce = db[env.caller].nonce + 1

\* C12: the same for a caller without code, except for a create transaction
\* that ends OutOfFund before its frame is entered, which leaves the nonce as
\* it was.
C12_CallerNonceIncrementedOnce ==
    (Completed /\ db[env.caller].code = <<>>) =>
        js.accounts[env.caller].nonce =
            db[env.caller].nonce
            + (IF ev.exit.type = "create_return" /\ result.exit_reason = "OutOfFund"
               THEN 0 ELSE 1)

\* a create transaction whose top frame changed the state and was rolled back
C12_Witness ==
    /\ Completed /\ env.transact_to.kind = "Create"
    /\ ev.exit.type = "exit" /\ ~return_ok(result.exit_reason) /\ ev.exit.changed
    /\ js.accounts[env.caller].nonce = db[env.caller].nonce + 1

\* what a state change is visible in: balances, nonces, code, storage,
\* destroyed accounts and logs
WorldOf(j) ==
    [accounts |-> [a \in Addr |->
                      [balance |-> j.accounts[a].balance, nonce |-> j.accounts[a].nonce,
                       code |-> j.accounts[a].code,
                       is_destroyed |-> j.accounts[a].is_destroyed,
                       storage |-> [k \in Slots |-> j.accounts[a].storage[k].present]]],
     logs |-> j.logs]

\* the innermost frame runs code and is static: a STATICCALL started it
InStaticFrame ==
    Running /\ Top.has_code /\ (Top.scheme = "StaticCall" \/ Top.is_static)

\* the instructions that write: SSTORE, LOG, CREATE, SELFDESTRUCT and a CALL
\* with a value
WriteInstruction ==
    \/ OpSstore
    \/ OpLog
    \/ OpCreate
    \/ OpSelfdestruct
    \/ \E c \in Calls : c.scheme = "Call" /\ c.value # 0 /\ OpCallWith(c)

FrameDepth == Len(frames) - 1

\* the outcome of a call or create that is too deep
TooDeep(reason) == reason \in {"StackDepthLimit", "CallTooDeep"}

\* C14: the depth of a frame never exceeds the limit, the frame of the
\* transaction being at depth 0, and a CALL, STATICCALL or CREATE that reaches
\* the frame engine at the limit returns the too-deep outcome to the running
\* frame: no frame is added, no checkpoint is open that was not, and the
\* balances, nonces, code, storage and logs are what they were.
C14_DepthLimited ==
    /\ [](frames # <<>> => FrameDepth <= CALL_STACK_LIMIT /\ js.depth = Len(frames))
    /\ [][(Running /\ FrameDepth = CALL_STACK_LIMIT /\ (OpCall \/ OpCreate))
            => \/ ev'.type = "exit" /\ ~return_ok(ev'.interp_reason)
               \/ ev'.type = "abort"
               \/ /\ ev'.type \in {"call_return", "create_return"}
                  /\ TooDeep(ev'.reason)
                  /\ Len(frames') = Len(frames)
                  /\ js'.depth = js.depth
                  /\ WorldOf(js') = WorldOf(js)
                  /\ Top'.stack_top = 0]_vars

C14_Witness ==
    /\ ev.type \in {"call_return", "create_return"}
    /\ TooDeep(ev.reason)
    /\ FrameDepth = CALL_STACK_LIMIT
    /\ Top.stack_top = 0


C16_CallOutOfFundReturns ==
    [][\A c \in Calls :
          (/\ Running /\ FrameDepth < CALL_STACK_LIMIT
           /\ c.scheme = "Call" /\ c.value > js.accounts[Top.address].balance
           /\ OpCallWith(c)
           /\ ev'.type # "exit")
            => /\ pc' = "running"
               /\ ev'.type = "call_return"
               /\ ev'.reason = "OutOfFund"
               /\ Len(frames') = Len(frames)
               /\ Top'.stack_top = 0
               /\ WorldOf(js') = WorldOf(js)]_vars


\* a create reaches the frame engine: the create transaction or a CREATE
Creating ==
    \/ pc = "start" /\ env.transact_to.kind = "Create" /\ Transact
    \/ Running /\ OpCreate

\* the account that creates and the address its create derives
Creator == IF frames = <<>> THEN env.caller ELSE Top.address
Created == create_address(Creator, js.accounts[Creator].nonce)

\* C17: a create that is not too deep, whose creator can pay the value and
\* whose derived address holds an account with a nonzero nonce or with code,
\* returns CreateCollision: no frame runs the init code, no checkpoint stays
\* open, the account at the address and every other account but the creator
\* are what they were, the creator keeps its balance (less the gas payment of
\* a create transaction) and has its nonce incremented.
C17_CreateCollision ==
    [][(/\ Creating
        /\ js.accounts[Created].nonce # 0 \/ js.accounts[Created].code # <<>>
        /\ ev'.type \in {"create_return", "enter"}
        /\ ev'.type = "create_return" => ev'.reason \notin {"CallTooDeep", "OutOfFund"})
        => /\ ev'.type = "create_return"
           /\ ev'.reason = "CreateCollision"
           /\ Len(frames') = Len(frames)
           /\ js'.depth = js.depth
           /\ \A a \in Addr \ {Creator} : WorldOf(js').accounts[a] = WorldOf(js).accounts[a]
           /\ WorldOf(js').logs = WorldOf(js).logs
           /\ WorldOf(js').accounts[Creator] =
                [WorldOf(js).accounts[Creator] EXCEPT
                    !.nonce = @ + 1,
                    !.balance = IF frames = <<>>
                                THEN @ - env.gas_limit * effective_gas_price(env)
                                ELSE @]
           /\ frames # <<>> => Top'.stack_top = 0
           /\ frames = <<>> => pc' = "finalize" /\ result'.exit_reason = "CreateCollision"]_vars

\* the create transaction has collided with an account that holds a balance
\* and a nonce and has kept the value of 10
C17_Witness ==
    /\ ev.type = "create_return" /\ ev.reason = "CreateCollision"
    /\ pc = "finalize"
    /\ env.value = 10
    /\ js.accounts[NEW_B].balance = 3
    /\ js.accounts[NEW_B].nonce = 1
    /\ js.accounts[env.caller].nonce = db[env.caller].nonce + 1


\* C18: from London, when the init code of a create ends well and returns
\* code that is not empty and starts with the byte 0xEF, the create ends with
\* InvalidContractPrefix, which is a halt: balances, nonces, code, storage and
\* logs are those of the checkpoint, taken after the nonce of the creator was
\* incremented, so the value is back with the creator, the address holds no
\* code and the creator keeps its incremented nonce.
C18_InvalidContractPrefix ==
    (/\ ev.type = "exit" /\ ev.kind = "create"
     /\ return_ok(ev.interp_reason)
     /\ ev.out # <<>> /\ Head(ev.out) = 239
     /\ enabled(GSPEC, LONDON))
        => /\ ev.reason = "InvalidContractPrefix"
           /\ Halt(ev.reason)
           /\ WorldOf(js) = WorldOf(ev.snap)
           /\ js.accounts[ev.address].code = <<>>
           /\ js.accounts[ev.address].nonce = 0
           /\ ev.depth = 1 =>
                /\ result.exit_reason = "InvalidContractPrefix"
                /\ js.accounts[env.caller].nonce = db[env.caller].nonce + 1
                /\ js.accounts[env.caller].balance =
                        db[env.caller].balance - env.gas_limit * effective_gas_price(env)
                /\ js.accounts[ev.address].balance = db[ev.address].balance
           /\ ev.depth > 1 => Top.stack_top = 0

\* the create transaction with value 10 has ended with InvalidContractPrefix
C18_Witness ==
    /\ ev.type = "exit" /\ ev.kind = "create" /\ ev.depth = 1
    /\ ev.interp_reason = "Return"
    /\ ev.out = <<239>>
    /\ ev.reason = "InvalidContractPrefix"
    /\ env.value = 10
    /\ js.accounts[env.caller].nonce = db[env.caller].nonce + 1


\* the init code of a create has ended well with code that is neither
\* rejected for its first byte nor for its size
Deposits ==
    /\ ev.type = "exit" /\ ev.kind = "create"
    /\ return_ok(ev.interp_reason)
    /\ ~(enabled(GSPEC, LONDON) /\ ev.interp_out # <<>> /\ Head(ev.interp_out) = 239)
    /\ ~(enabled(GSPEC, SPURIOUS_DRAGON)
         /\ Len(ev.interp_out) > env.limit_contract_code_size)

\* C19: depositing the code a create returns costs 200 gas per byte, taken
\* from the gas the init code has left. When that gas covers the cost the
\* code is installed and the cost charged. When it does not, from Homestead
\* the create fails with OutOfGas, the state is that of the checkpoint and no
\* code is installed; before Homestead the create succeeds, what the init
\* code did is committed (the created account holds the value) and the code
\* installed is empty.
C19_CodeDeposit ==
    Deposits =>
        LET cost == 200 * Len(ev.interp_out)
            left == remaining(ev.interp_gas)
            a == ev.address
        IN  /\ cost <= left =>
                /\ ev.reason = "Continue"
                /\ js.accounts[a].code = ev.interp_out
                /\ remaining(ev.ret_gas) = left - cost
            /\ (cost > left /\ enabled(GSPEC, HOMESTEAD)) =>
                /\ ev.reason = "OutOfGas"
                /\ WorldOf(js) = WorldOf(ev.snap)
                /\ js.accounts[a].code = <<>>
            /\ (cost > left /\ ~enabled(GSPEC, HOMESTEAD)) =>
                /\ ev.reason = "Continue"
                /\ return_ok(ev.reason)
                /\ js.accounts[a].code = <<>>
                /\ WorldOf(js) = WorldOf(ev.interp_js)
                /\ js.accounts[a].balance = ev.snap.accounts[a].balance + ev.value
                /\ remaining(ev.ret_gas) = left

\* before Homestead a create transaction with value 10 has succeeded with
\* empty code because 100 gas do not pay for a byte of code
C19_Witness ==
    /\ Deposits
    /\ ~enabled(GSPEC, HOMESTEAD)
    /\ ev.interp_out = <<96>>
    /\ remaining(ev.interp_gas) = 100
    /\ ev.reason = "Continue"
    /\ js.accounts[ev.address].code = <<>>
    /\ js.accounts[ev.address].balance = 10


\* C20 as stated: from Berlin the first BALANCE of an address in a transaction
\* costs 2600 and a later one 100, or 2600 when a frame that was the first to
\* access the address has been reverted since.
C20_FirstBalanceIsCold ==
    (ev.type = "balance" /\ enabled(GSPEC, BERLIN)) =>
        ev.cost = IF ev.first \/ ev.recold THEN 2600 ELSE 100

\* C20: from Berlin a BALANCE costs 2600 when the address is cold and 100
\* when it is warm, and leaves it warm. An address is warm from its first
\* access of any kind and turns cold again only when a frame fails that was
\* the first to access it; when a frame fails, every address it was the first
\* to access is cold again.
C20_BalanceChargedByWarmth ==
    /\ []((ev.type = "balance" /\ enabled(GSPEC, BERLIN)) =>
            /\ ev.cost = IF ev.is_cold THEN 2600 ELSE 100
            /\ js.accounts[ev.address].loaded)
    /\ [][\A a \in Addr :
            /\ (js.accounts[a].loaded /\ ~js'.accounts[a].loaded) =>
                    /\ ev'.type = "exit"
                    /\ ~return_ok(ev'.reason)
                    /\ ~ev'.snap.accounts[a].loaded
            /\ (ev'.type = "exit" /\ ~return_ok(ev'.reason)) =>
                    js'.accounts[a].loaded = ev'.snap.accounts[a].loaded]_vars

\* a BALANCE of an address that is not the first one costs 2600 again: the
\* frame that first read the balance has been reverted
C20_Witness ==
    /\ ev.type = "balance" /\ enabled(GSPEC, BERLIN)
    /\ ~ev.first /\ ev.recold
    /\ ev.cost = 2600

\* C21: whenever a lookup of the database fails during a transaction (the
\* preloading of the access list, the load of the caller, the reads of the
\* executed code, the load of the beneficiary at finalize) the transaction
\* is aborted with that error: a call transaction to an account without code
\* that produced an execution result met no failing lookup of the caller, the
\* beneficiary, the called account or an address of the access list.
C21_DatabaseFailureAborts ==
    LET LookedUp == {env.caller, env.coinbase, env.transact_to.address}
                    \cup (IF enabled(GSPEC, BERLIN)
                          THEN {env.access_list[i].address : i \in DOMAIN env.access_list}
                          ELSE {})
    IN  (Completed /\ env.transact_to.kind = "Call") => \A a \in LookedUp : ~db[a].error

\* C22: a call to a precompile never runs the interpreter. When the precompile
\* succeeds with gas_used <= gas_limit the checkpoint is committed and the gas
\* returned has gas_limit - gas_used remaining; when gas_used > gas_limit the
\* call fails with OutOfGas; when the precompile returns an error the call
\* fails with the halt the error maps to; in both failure cases the checkpoint
\* (the value transfer included) is reverted and the output is empty.
C22_PrecompileCall ==
    LET p == env.precompile
        gas_limit == env.gas_limit - IntrinsicGas
        to == env.transact_to.address
    IN  (to = p.address /\ pc # "start" /\ pc # "rejected")
        => /\ frames = <<>>
           /\ pc \in {"finalize", "done"}
           /\ IF p.out.ok /\ p.out.gas_used <= gas_limit
              THEN /\ result.exit_reason = "Continue"
                   /\ result.out = p.out.data
                   /\ remaining(tx_gas) = gas_limit - p.out.gas_used
                   /\ js.accounts[to].balance = db[to].balance + env.value
              ELSE /\ result.exit_reason =
                          (IF p.out.ok THEN "OutOfGas" ELSE precompile_halt(p.out.error))
                   /\ Halt(result.exit_reason)
                   /\ result.out = EMPTY
                   /\ remaining(tx_gas) = 0
                   /\ js.accounts[to].balance = db[to].balance

\* the precompile fails with a Blake2 error and the value it was sent is back
\* with the caller
C22_Witness ==
    /\ env.transact_to.address = env.precompile.address /\ pc = "finalize"
    /\ ~env.precompile.out.ok /\ result.exit_reason = "InvalidParameter"
    /\ ev.type = "call_return" /\ remaining(ev.ret_gas) = 79000 /\ env.value > 0
    /\ js.accounts[CALLER].balance = db[CALLER].balance - 100000 * 2

\* the innermost frame is about to execute an instruction of its code and
\* has the gas for it
Interpreting ==
    /\ pc = "running" /\ frames # <<>> /\ env.interpret
    /\ can_record_cost(Top.gas, opcode_gas(byte_at(Top.bytecode, Top.instruction_pointer)))

\* C23: JUMP to dest moves the program counter to dest exactly when dest is
\* below the length of the code, the byte at dest is 0x5B and dest is not
\* inside the immediate bytes of a PUSH; otherwise the frame halts with
\* InvalidJump. JUMPI with a nonzero condition does the same; JUMPI with a
\* zero condition continues with the next instruction whatever dest is.
C23_JumpValidated ==
    [][Interpreting =>
        LET f == Top
            code == f.bytecode
            op == byte_at(code, f.instruction_pointer)
            n == Len(f.stack)
            dest == f.stack[n]
            \* the positions at which an instruction starts
            start[i \in 0..Len(code)] ==
                \/ i = 0
                \/ \E j \in 0..(i - 1) :
                      /\ start[j]
                      /\ i = j + 1 + (IF code[j + 1] \in 96..127 THEN code[j + 1] - 95 ELSE 0)
            valid == dest < Len(code) /\ code[dest + 1] = 91 /\ start[dest]
            jumps == \/ op = opcode.JUMP /\ n >= 1
                     \/ op = opcode.JUMPI /\ n >= 2 /\ f.stack[n - 1] # 0
            falls == op = opcode.JUMPI /\ n >= 2 /\ f.stack[n - 1] = 0
        IN  /\ (jumps /\ valid)
                => Len(frames') = Len(frames) /\ Top'.instruction_pointer = dest
            /\ (jumps /\ ~valid)
                => /\ ev'.type = "exit" /\ ev'.interp_reason = "InvalidJump"
                   /\ Len(frames') < Len(frames)
            /\ falls
                => /\ Len(frames') = Len(frames)
                   /\ Top'.instruction_pointer = f.instruction_pointer + 1]_vars

\* a JUMP to the byte 0x5B that is the immediate byte of a PUSH1 has halted
\* the frame with InvalidJump
C23_Witness ==
    /\ db[CONTRACT_X].code = <<96, 4, 86, 96, 91, 0>>
    /\ ev.type = "exit" /\ ev.interp_reason = "InvalidJump" /\ pc = "finalize"

\* C25: BLOCKHASH(n) pushes the hash the database holds for n exactly when
\* 1 <= current - n <= 256; for n = current, for n above current and for n
\* more than 256 blocks old it pushes zero and does not ask the database.
C25_BlockhashWindow ==
    ev.type = "blockhash"
    => IF 1 <= env.block_number - ev.number /\ env.block_number - ev.number <= 256
       THEN ev.value = db_block_hash(ev.number) /\ ev.queried
       ELSE ev.value = 0 /\ ~ev.queried

\* C25 (amended): the same for a current block number that fits usize.
C25_BlockhashWindowInUsize ==
    (ev.type = "blockhash" /\ env.block_number <= USIZE_MAX)
    => IF 1 <= env.block_number - ev.number /\ env.block_number - ev.number <= 256
       THEN ev.value = db_block_hash(ev.number) /\ ev.queried
       ELSE ev.value = 0 /\ ~ev.queried

\* the host Context has asked the database for the oldest block of the window
C25_Witness ==
    /\ ev.type = "blockhash" /\ env.host = "Context" /\ env.block_number <= USIZE_MAX
    /\ env.block_number - ev.number = 256 /\ ev.queried
    /\ Top.stack = <<db_block_hash(ev.number)>>

\* C28: gas is charged for the executed instructions only: the program
\* PUSH1 1, PUSH1 11, JUMPI, PUSH1 1, PUSH1 1, PUSH1 1, JUMPDEST, STOP run with
\* a gas limit of 21100 ends with Stop and gas_used = 21017.
C28_GasOfExecutedInstructions ==
    (Completed /\ env.gas_limit = 21100
     /\ db[CONTRACT_X].code = <<96, 1, 96, 11, 87, 96, 1, 96, 1, 96, 1, 91, 0>>)
    => result.exit_reason = "Stop" /\ result.gas_used = 21017

\* the program has run to its STOP: the three PUSH1 the JUMPI jumped over
\* were not charged
C28_Witness ==
    /\ Completed /\ env.gas_limit = 21100 /\ env.interpret
    /\ Len(db[CONTRACT_X].code) = 13
    /\ spend(tx_gas) = 21000 + 3 + 3 + 10 + 1
    /\ ev.type = "finalize" /\ ev.exit.type = "exit" /\ ev.exit.interp_reason = "Stop"

\* C24: the logs of the result are exactly the logs emitted by the frames
\* that succeeded and all of whose enclosing frames succeeded, in the order of
\* emission; a log emitted in a frame that reverted or halted, or in a
\* sub-frame of it, is not among them. While frames run, the log buffer holds
\* the logs of the live frames and of their sub-frames that succeeded.
C24_LogsOfSuccessfulFrames ==
    LET RECURSIVE Emitted(_)
        Emitted(i) == IF i = 0 THEN <<>> ELSE Emitted(i - 1) \o hist[i].logs
    IN  /\ pc = "running" => js.logs = Emitted(Len(hist))
        /\ Completed
            => result.logs = IF ev.exit.type = "exit" /\ return_ok(ev.exit.reason)
                             THEN ev.exit.emitted
                             ELSE <<>>

\* a sub-frame that emitted a log has failed and the log of its caller is
\* the only one left
C24_Witness ==
    /\ ev.type = "exit" /\ ev.depth = 2 /\ ~return_ok(ev.reason)
    /\ Len(ev.emitted) = 1 /\ Len(js.logs) = 1 /\ hist[1].logs = js.logs

\* C26: at finalize the balance of the beneficiary increases by
\* (gas_used - refund) * (effective_gas_price - basefee) from London on and by
\* (gas_used - refund) * gas_price before London, gas_used being the gas
\* spent before the refund is subtracted.
C26_BeneficiaryReward ==
    [][(pc = "finalize" /\ pc' = "done")
        => js'.accounts[env.coinbase].balance
           = js.accounts[env.coinbase].balance
             + (spend(tx_gas) - result'.gas_refunded)
               * (IF enabled(GSPEC, LONDON) THEN effective_gas_price(env) - env.basefee
                  ELSE env.gas_price)]_vars

\* C26 (amended): before London the factor is the effective gas price, which
\* is the gas price of a transaction without a priority fee.
C26_BeneficiaryRewardEffective ==
    [][(pc = "finalize" /\ pc' = "done")
        => js'.accounts[env.coinbase].balance
           = js.accounts[env.coinbase].balance
             + (spend(tx_gas) - result'.gas_refunded)
               * (IF enabled(GSPEC, LONDON) THEN effective_gas_price(env) - env.basefee
                  ELSE effective_gas_price(env))]_vars

\* a transaction before London that has a priority fee and got a refund has
\* paid the beneficiary the effective gas price for the gas that was not
\* refunded
C26_Witness ==
    /\ Completed /\ ~enabled(GSPEC, LONDON) /\ env.gas_priority_fee # None
    /\ effective_gas_price(env) < env.gas_price /\ result.gas_refunded > 0
    /\ js.accounts[env.coinbase].balance
       = db[env.coinbase].balance
         + (spend(tx_gas) - result.gas_refunded) * effective_gas_price(env)

\* a call transaction with empty data and no access list to an account
\* without code that is no precompile, in a block with basefee 0, with a gas
\* limit of at least 21000, has run to its result
PlainTransfer ==
    /\ Completed /\ env.transact_to.kind = "Call" /\ env.data = <<>>
    /\ env.access_list = <<>> /\ env.basefee = 0 /\ env.gas_limit >= 21000
    /\ db[env.transact_to.address].code = <<>>
    /\ env.transact_to.address # env.precompile.address

\* C27: a call transaction with empty data to an account without code, with
\* gas_limit >= 21000, basefee 0 and a sufficiently funded caller ends with
\* Stop, gas_used = 21000 and no refund; the balance of the caller decreases
\* by 21000 * gas_price + value, that of the recipient increases by value and
\* that of the beneficiary by 21000 * gas_price.
C27_PlainTransferAtGasPrice ==
    (PlainTransfer /\ db[env.caller].balance >= env.gas_limit * env.gas_price + env.value)
    => /\ result.exit_reason = "Stop" /\ result.gas_used = 21000 /\ result.gas_refunded = 0
       /\ js.accounts[env.caller].balance
          = db[env.caller].balance - (21000 * env.gas_price + env.value)
       /\ js.accounts[env.transact_to.address].balance
          = db[env.transact_to.address].balance + env.value
       /\ js.accounts[env.coinbase].balance = db[env.coinbase].balance + 21000 * env.gas_price

\* C27 (amended): the same with the effective gas price, which is the gas
\* price of a transaction that sets no priority fee.
C27_PlainTransferAtEffectivePrice ==
    LET price == effective_gas_price(env)
    IN  (PlainTransfer /\ db[env.caller].balance >= env.gas_limit * price + env.value)
        => /\ result.exit_reason = "Stop" /\ result.gas_used = 21000
           /\ result.gas_refunded = 0
           /\ js.accounts[env.caller].balance
              = db[env.caller].balance - (21000 * price + env.value)
           /\ js.accounts[env.transact_to.address].balance
              = db[env.transact_to.address].balance + env.value
           /\ js.accounts[env.coinbase].balance = db[env.coinbase].balance + 21000 * price

\* a transfer of 10 with a gas limit of 30000 at the gas price 3 has cost the
\* caller 63010
C27_Witness ==
    /\ PlainTransfer /\ env.gas_limit = 30000 /\ env.value = 10 /\ env.gas_price = 3
    /\ env.gas_priority_fee = None /\ db[env.caller].balance = 90010
    /\ js.accounts[env.caller].balance = 90010 - 63010
    /\ js.accounts[EOA].balance = 17 /\ js.accounts[COINBASE].balance = 63000

\* C29: before London a SELFDESTRUCT adds a refund of 24000 only the first
\* time the account is destroyed in the transaction: a SELFDESTRUCT of an
\* account that a SELFDESTRUCT not reverted since has destroyed adds none;
\* from London on no SELFDESTRUCT adds a refund.
C29_SelfdestructRefundOnce ==
    [][(Running /\ ev'.type = "exit" /\ ev'.interp_reason = "SelfDestruct"
        /\ ev'.depth = Len(frames))
        => refunded(ev'.interp_gas) - refunded(Top.gas)
           = IF ~enabled(GSPEC, LONDON) /\ Top.address \notin hist[Len(hist)].destroyed
             THEN 24000
             ELSE 0]_vars

\* before London an account that a sub-frame has destroyed is destroyed
\* again: the refund of the frame is the one refund its sub-frame handed up
C29_Witness ==
    /\ ~enabled(GSPEC, LONDON) /\ ev.type = "exit" /\ ev.interp_reason = "SelfDestruct"
    /\ ev.address \in ev.destroyed /\ refunded(ev.interp_gas) = 24000
    /\ refunded(tx_gas) = 24000 /\ pc = "finalize"

\* C30 (as stated): after replace_account_storage(a, S) on a cache layered
\* over a backing state, storage(a, k) returns S[k] for every key of S and
\* zero for every other key, and basic(a) returns what the backing state
\* returns for a.
C30_ReplaceAccountStorage ==
    (pc = "new_state" /\ ev.type = "replace_account_storage" /\ ~ev.cached
     /\ result.op # "none" /\ result.address = ev.address)
    => /\ result.op = "storage"
          => result.value = IF result.index \in DOMAIN ev.storage
                            THEN ev.storage[result.index]
                            ELSE 0
       /\ result.op = "basic" => result.value = ev.backing

\* C30 (amended): after replace_account_storage(a, S) on a cache layered over
\* a backing state, storage(a, k) returns S[k] for every key of S and zero
\* for every other key; basic(a) returns the account info of the backing
\* state when the backing state has the account a, and the default account
\* info when it has not.
C30_ReplaceAccountStorageOfAccount ==
    (pc = "new_state" /\ ev.type = "replace_account_storage" /\ ~ev.cached
     /\ result.op # "none" /\ result.address = ev.address)
    => /\ result.op = "storage"
          => result.value = IF result.index \in DOMAIN ev.storage
                            THEN ev.storage[result.index]
                            ELSE 0
       /\ result.op = "basic"
          => result.value = IF ev.backing.some
                            THEN ev.backing
                            ELSE Some(AccountInfo_default)

\* test_replace_account_storage: the backing state has the account with a
\* nonce and a nonzero value at a key, the storage is replaced by a map
\* with another key, and storage of the first key returns zero
C30_Witness ==
    /\ pc = "new_state" /\ ev.type = "replace_account_storage" /\ ~ev.cached
    /\ ev.backing.some /\ ev.backing.info.nonce = 2 /\ DOMAIN ev.storage = {1}
    /\ result.op = "storage" /\ result.address = ev.address /\ result.index = 0
    /\ StateRef_storage(db, ev.address, 0) = 1 /\ result.value = 0

\* C31 (as stated): after insert_account_storage(a, k, v) on a cache layered
\* over a backing state, storage(a, k) returns v, basic(a) returns what the
\* backing state returns for a, and storage of every other slot of a returns
\* what the backing state returns for it.
C31_InsertAccountStorage ==
    (pc = "new_state" /\ ev.type = "insert_account_storage" /\ ~ev.cached
     /\ result.op # "none" /\ result.address = ev.address)
    => /\ (result.op = "storage" /\ result.index = ev.slot) => result.value = ev.value
       /\ result.op = "basic" => result.value = ev.backing
       /\ (result.op = "storage" /\ result.index # ev.slot)
          => result.value = StateRef_storage(db, ev.address, result.index)

\* C31 (amended): after insert_account_storage(a, k, v) on a cache layered
\* over a backing state, storage(a, k) returns v and basic(a) returns what
\* the backing state returns for a; storage of every other slot of a returns
\* what the backing state returns for it when the backing state has the
\* account a, and zero when it has not.
C31_InsertAccountStorageOfAccount ==
    (pc = "new_state" /\ ev.type = "insert_account_storage" /\ ~ev.cached
     /\ result.op # "none" /\ result.address = ev.address)
    => /\ (result.op = "storage" /\ result.index = ev.slot) => result.value = ev.value
       /\ result.op = "basic" => result.value = ev.backing
       /\ (result.op = "storage" /\ result.index # ev.slot)
          => result.value = IF ev.backing.some
                            THEN StateRef_storage(db, ev.address, result.index)
                            ELSE 0

\* the backing state has the account with a nonce and a value at a slot; a
\* value is inserted at the other slot and the first slot reads through
C31_Witness ==
    /\ pc = "new_state" /\ ev.type = "insert_account_storage" /\ ~ev.cached
    /\ ev.backing.some /\ ev.backing.info.nonce = 2 /\ ev.slot = 1 /\ ev.value = 2
    /\ result.op = "storage" /\ result.address = ev.address /\ result.index = 0
    /\ result.value = 1 /\ js.accounts[ev.address].storage[1] = 2

\* C32: in every reachable CacheState each account entry's info.code is None
\* and code_by_hash returns the bytecode of its code hash.
C32_CodeOnlyInContracts ==
    \A c \in {db, js} : \A a \in DOMAIN c.accounts :
        /\ c.accounts[a].info.code = NoCode
        /\ Bytecode_hash(StateRef_code_by_hash(c, c.accounts[a].info.code_hash))
               = c.accounts[a].info.code_hash

\* C39: when insert_account_info(a, info) returns the storage of the account
\* is what it was, and basic(a) then returns that info, its code hash being the hash of
\* its code or, when zero, the hash of the empty code, whatever was done to
\* the cache before.
C39_InsertAccountInfo ==
    ev.type = "insert_account_info"
    => /\ result.op = "none" => Target.accounts[ev.address].storage = ev.storage
       /\ (result.op = "basic" /\ result.address = ev.address)
          => result.value
             = Some([ev.info EXCEPT !.code_hash =
                        IF ev.info.code.some /\ ev.info.code.bytes # <<>>
                        THEN Bytecode_hash(ev.info.code.bytes)
                        ELSE IF @ = 0 THEN KECCAK_EMPTY ELSE @])

\* C38: on every cache state the caching reads State::storage and
\* State::basic return what the non-caching reads StateRef::storage and
\* StateRef::basic return on that state, and a caching read changes the
\* value of no later read.
C38_CachingReadsAgree ==
    [][(nops' = nops + 1 /\ result'.op \in {"basic", "storage"})
       => /\ result'.op = "storage"
             => result'.value = StateRef_storage(Target, result'.address, result'.index)
          /\ result'.op = "basic"
             => result'.value = StateRef_basic(Target, result'.address)
          /\ \A a \in CacheAddr :
                /\ StateRef_basic(Target', a) = StateRef_basic(Target, a)
                /\ \A k \in CacheKeys :
                      StateRef_storage(Target', a, k) = StateRef_storage(Target, a, k)]_vars

\* C40: once a commit has applied a destroyed account to a CacheState,
\* storage of the account returns only zero or a value written to the slot
\* after the destruction, never the value the backing state holds.
C40_DestroyedStorageStaysUnreadable ==
    (pc = "new_state" /\ result.op = "storage" /\ hist[result.address].destroyed)
    => \/ result.value = 0
       \/ <<result.index, result.value>> \in hist[result.address].written

\* C33: a frame for which the inspector's initialize_interp returned another
\* Eval than Continue executes no instruction: no step is taken while such a
\* frame is the running one.
C33_InterpreterSkipped ==
    [][~(pc = "running" /\ frames # <<>> /\ Top.initialize_interp # "Continue")]_vars

\* C34: a CREATE executed by an account whose nonce cannot be incremented
\* does not abort the transaction: the step of a running frame never ends
\* transact with the error NonceOverflow, the creating frame goes on.
C34_CreateNonceOverflowHalts ==
    [][(Running /\ ~can_inc_nonce(js, Top.address))
       => ~(pc' = "error" /\ result'.error = "NonceOverflow")]_vars

C36_CheckpointsClosed ==
    [][/\ (ev'.type \in {"call_return", "create_return"}
           \/ (ev'.type = "abort" /\ ev'.error # "panic")) => js'.depth = js.depth
       /\ Len(frames') < Len(frames) /\ pc' # "error" => js'.depth = Len(frames')]_vars

\* C37: a create whose value exceeds the balance of the creator returns
\* OutOfFund before anything else happens: the nonce of the creator is not
\* incremented, no address is returned, no checkpoint is taken, the gas that
\* comes back has its whole limit remaining and the creating frame goes on
\* with 0.
C37_CreateOutOfFundFirst ==
    [][\A value \in env.create_values :
         (/\ OpCreateWith(value)
          /\ ~Top.is_static /\ can_record_cost(Top.gas, CREATE)
          /\ js.accounts[Top.address].balance < value)
         => /\ ev'.type = "create_return" /\ ev'.reason = "OutOfFund"
            /\ js'.accounts[Top.address].nonce = js.accounts[Top.address].nonce
            /\ ev'.address = None
            /\ js'.depth = js.depth
            /\ remaining(ev'.ret_gas) = ev'.gas_limit
            /\ Len(frames') = Len(frames) /\ frames'[Len(frames)].stack_top = 0]_vars

\* C37, amended: the depth check comes first. A create whose value exceeds
\* the balance of the creator returns OutOfFund when the depth is within the
\* limit and CallTooDeep when it is not; in both cases the nonce of the
\* creator is not incremented, no address is returned, no checkpoint is taken,
\* the gas that comes back has its whole limit remaining and the creating
\* frame goes on with 0. A create transaction that returns OutOfFund leaves
\* the nonce of the caller, returns no address and opens no checkpoint.
C37_CreateOutOfFundWithinDepth ==
    [][/\ \A value \in env.create_values :
            (/\ OpCreateWith(value)
             /\ ~Top.is_static /\ can_record_cost(Top.gas, CREATE)
             /\ js.accounts[Top.address].balance < value)
            => /\ ev'.type = "create_return"
               /\ ev'.reason = (IF call_too_deep(js) THEN "CallTooDeep" ELSE "OutOfFund")
               /\ js'.accounts[Top.address].nonce = js.accounts[Top.address].nonce
               /\ ev'.address = None
               /\ js'.depth = js.depth
               /\ remaining(ev'.ret_gas) = ev'.gas_limit
               /\ Len(frames') = Len(frames) /\ frames'[Len(frames)].stack_top = 0
       /\ (pc = "start" /\ ev'.type = "create_return" /\ ev'.reason = "OutOfFund")
            => /\ js'.accounts[env.caller].nonce = js.accounts[env.caller].nonce
               /\ result'.address = None
               /\ js'.depth = 0]_vars

\* a CREATE with a value above the balance of the creating contract has
\* returned OutOfFund to the frame of the transaction
C37_Witness ==
    /\ ev.type = "create_return" /\ ev.reason = "OutOfFund" /\ ev.depth = 1
    /\ pc = "running" /\ Top.stack_top = 0
    /\ 1000 \in env.create_values

====
